---- MODULE Spec2Model ----
(***************************************************************************)
(* A model of the DataStore driver of chia-wallet-sdk: the memo codec      *)
(* (get_recreation_memos / build_datastore), the launcher, and the forward *)
(* (spend) and reverse (from_spend) paths of the DataStore singleton.      *)
(* Beside it: the condition parser (run_puzzle, non_ephemeral_coins), the   *)
(* CAT ring spend (CatSpend::finish), and the StandardWallet's tasks         *)
(* (generate_puzzle_hashes, the background task, drop).                     *)
(*                                                                         *)
(* Hashing is modelled symbolically: a hash is a tagged tuple of what was  *)
(* hashed, so two hashes are equal exactly when their preimages are.       *)
(* Byte strings (memos) are <<"b32", h>> for the 32 bytes of hash h and    *)
(* <<"raw", bytes>> for any other byte string.  A u64 whose full width     *)
(* matters (the oracle fee) is its 8 big-endian bytes.                     *)
(***************************************************************************)
EXTENDS Integers, Sequences, FiniteSets, TLC

VARIABLES
    call,       \* the last call of a pure function: its inputs and its output
    launcher,   \* the Launcher of the chain under observation
    ds,         \* the caller's live DataStore handle: <<>> or <<object>>
    step,       \* the last chain step: its inputs, the CoinSpend and the result
    steps,      \* number of chain steps taken
    errors,     \* the errors that spend and from_spend have returned so far
    wallet,     \* the StandardWallet's shared objects: key store, state, drop flag
    tasks,      \* the tasks that use the wallet: their position and their locals
    channel     \* the peer's event channel as the background task's receiver sees it

vars == <<call, launcher, ds, step, steps, errors, wallet, tasks, channel>>

-----------------------------------------------------------------------------
(* Bounds of the model *)

NumHashes == 3
MaxDelegated == 2
MaxMemos == 3
MaxFee == 260
MaxSteps == 3
MaxAmountCalls == 2
MaxBundle == 3
MaxItems == 3
MaxEvents == 2
MaxBatch == 2
MaxDerivations == 3

-----------------------------------------------------------------------------
(* Option and Result *)

None == <<>>
Some(v) == <<v>>
IsSome(o) == Len(o) = 1

Ok(v) == [tag |-> "Ok", val |-> v, err |-> "none"]
Err(e) == [tag |-> "Err", val |-> <<>>, err |-> e]
IsOk(r) == r.tag = "Ok"

-----------------------------------------------------------------------------
(* Hashes, byte strings and u64 *)

H(i) == <<"h", i>>
Hashes == {H(i) : i \in 1..NumHashes}

B32(h) == <<"b32", h>>
Raw(bytes) == <<"raw", bytes>>

\* Bytes32::try_from(bytes): only a 32-byte string converts
IsB32(m) == m[1] = "b32"

RECURSIVE BytesBE(_, _)
\* the k low bytes of n, big-endian
BytesBE(n, k) == IF k = 0 THEN <<>> ELSE Append(BytesBE(n \div 256, k - 1), n % 256)

\* a small number as a u64
U64(n) == BytesBE(n, 8)

RECURSIVE StripZeros(_)
\* BigUint::to_bytes_be: the magnitude without leading zero bytes, [0] for zero
StripZeros(b) ==
    IF Len(b) > 1 /\ b[1] = 0 THEN StripZeros(Tail(b)) ELSE b

\* BigInt::from(u64).to_signed_bytes_be(): a zero byte is put in front when the
\* high bit of the magnitude is set
ToSignedBytesBE(fee) ==
    LET mag == StripZeros(fee)
    IN  IF mag[1] > 127 THEN <<0>> \o mag ELSE mag

RECURSIVE StripAllZeros(_)
\* the loop without its test of the next byte's high bit
StripAllZeros(b) ==
    IF Len(b) > 0 /\ b[1] = 0 THEN StripAllZeros(Tail(b)) ELSE b

RECURSIVE StripFeeBytes(_)
\* the loop of get_recreation_memos that removes leading zero bytes
StripFeeBytes(b) ==
    IF Len(b) > 0 /\ b[1] = 0
    THEN IF Len(b) > 1 /\ b[2] >= 128 THEN b ELSE StripFeeBytes(Tail(b))
    ELSE b

FeeBytes(fee) == StripFeeBytes(ToSignedBytesBE(fee))

RECURSIVE PadTo8(_)
PadTo8(b) == IF Len(b) >= 8 THEN b ELSE PadTo8(<<0>> \o b)

\* BigInt::from_signed_bytes_be(bytes).to_u64(): None for a negative number and
\* for one that does not fit 64 bits
FeeFromBytes(b) ==
    IF Len(b) = 0 THEN Some(U64(0))
    ELSE IF b[1] >= 128 THEN None
    ELSE LET mag == StripZeros(b)
         IN  IF Len(mag) > 8 THEN None ELSE Some(PadTo8(mag))

-----------------------------------------------------------------------------
(* Delegated puzzles and their memos *)

Admin(h) == <<"Admin", h>>
Writer(h) == <<"Writer", h>>
Oracle(h, fee) == <<"Oracle", h, fee>>

AdminPuzzle == 0
WriterPuzzle == 1
OraclePuzzle == 2

RECURSIVE DelegatedMemosAdminTag(_)
\* the loop writing the admin tag for a writer as well
DelegatedMemosAdminTag(dps) ==
    IF dps = <<>> THEN <<>>
    ELSE LET dp == Head(dps)
             m == IF dp[1] \in {"Admin", "Writer"}
                  THEN <<Raw(<<AdminPuzzle>>), B32(dp[2])>>
                  ELSE <<Raw(<<OraclePuzzle>>), B32(dp[2]), Raw(FeeBytes(dp[3]))>>
         IN  m \o DelegatedMemosAdminTag(Tail(dps))

RECURSIVE DelegatedMemos(_)
\* the loop body of get_recreation_memos, for every delegated puzzle in order
DelegatedMemos(dps) ==
    IF dps = <<>> THEN <<>>
    ELSE LET dp == Head(dps)
             m == IF dp[1] = "Admin" THEN <<Raw(<<AdminPuzzle>>), B32(dp[2])>>
                  ELSE IF dp[1] = "Writer" THEN <<Raw(<<WriterPuzzle>>), B32(dp[2])>>
                  ELSE <<Raw(<<OraclePuzzle>>), B32(dp[2]), Raw(FeeBytes(dp[3]))>>
         IN  m \o DelegatedMemos(Tail(dps))

GetRecreationMemos(launcher_id, owner_puzzle_hash, delegated_puzzles) ==
    <<B32(launcher_id), B32(owner_puzzle_hash)>> \o DelegatedMemos(delegated_puzzles)

\* DelegatedPuzzle::from_memos: the result and the memos left
FromMemos(memos) ==
    IF Len(memos) < 2 THEN Err("MissingMemo")
    ELSE LET tag == memos[1]
             ph == memos[2]
         IN  IF ~(tag[1] = "raw" /\ Len(tag[2]) = 1
                    /\ tag[2][1] \in {AdminPuzzle, WriterPuzzle, OraclePuzzle})
             THEN Err("InvalidMemo")
             ELSE IF ~IsB32(ph) THEN Err("InvalidMemo")
             ELSE IF tag[2][1] = AdminPuzzle
                  THEN Ok([dp |-> Admin(ph[2]), rest |-> SubSeq(memos, 3, Len(memos))])
             ELSE IF tag[2][1] = WriterPuzzle
                  THEN Ok([dp |-> Writer(ph[2]), rest |-> SubSeq(memos, 3, Len(memos))])
             ELSE IF Len(memos) < 3 THEN Err("MissingMemo")
             ELSE IF IsB32(memos[3]) THEN Err("InvalidMemo")
             ELSE LET fee == FeeFromBytes(memos[3][2])
                  IN  IF fee = None THEN Err("InvalidMemo")
                      ELSE Ok([dp |-> Oracle(ph[2], fee[1]),
                               rest |-> SubSeq(memos, 4, Len(memos))])

RECURSIVE DecodeDelegated(_, _)
\* the loop `while memos.len() > 1` of build_datastore
DecodeDelegated(memos, acc) ==
    IF Len(memos) > 1
    THEN LET r == FromMemos(memos)
         IN  IF IsOk(r) THEN DecodeDelegated(r.val.rest, Append(acc, r.val.dp)) ELSE r
    ELSE Ok(acc)

-----------------------------------------------------------------------------
(* Metadata, coins, proofs and the DataStore object *)

Metadata(root_hash, label) == [root_hash |-> root_hash, label |-> label]
RootHashOnly(root_hash) == Metadata(root_hash, 0)
MetadataHash(m) == <<"metadata", m.root_hash, m.label>>

Coin(parent, puzzle_hash, amount) ==
    [parent_coin_info |-> parent, puzzle_hash |-> puzzle_hash, amount |-> amount]
CoinId(c) == <<"coin", c.parent_coin_info, c.puzzle_hash, c.amount>>

EveProof(ppci, amount) == <<"Eve", ppci, amount>>
LineageProof(ppci, piph, amount) == <<"Lineage", ppci, piph, amount>>

DataStoreInfo(launcher_id, metadata, owner_puzzle_hash, delegated_puzzles) ==
    [launcher_id |-> launcher_id, metadata |-> metadata,
     owner_puzzle_hash |-> owner_puzzle_hash, delegated_puzzles |-> delegated_puzzles]

DataStore(coin, proof, info) == [coin |-> coin, proof |-> proof, info |-> info]

\* build_datastore taking the launcher id from the first memo
BuildDatastoreMemoLauncher(coin, launcher_id, proof, metadata, fallback_owner_ph, memos) ==
    LET rest == IF memos = <<>> THEN <<>> ELSE Tail(memos)
        id == IF memos # <<>> /\ IsB32(memos[1]) THEN memos[1][2] ELSE launcher_id
        mk(owner, dps) == Ok(DataStore(coin, proof, DataStoreInfo(id, metadata, owner, dps)))
    IN  IF memos = <<>> THEN mk(fallback_owner_ph, <<>>)
        ELSE IF Len(rest) = 2 /\ rest[1] = B32(metadata.root_hash)
             THEN IF IsB32(rest[2]) THEN mk(rest[2][2], <<>>) ELSE Err("InvalidMemo")
        ELSE IF rest = <<>> THEN mk(fallback_owner_ph, <<>>)
        ELSE IF ~IsB32(rest[1]) THEN Err("InvalidMemo")
        ELSE LET d == DecodeDelegated(Tail(rest), <<>>)
             IN  IF IsOk(d) THEN mk(rest[1][2], d.val) ELSE d

\* build_datastore asking for the owner memo
BuildDatastoreNoFallback(coin, launcher_id, proof, metadata, fallback_owner_ph, memos) ==
    LET rest == IF memos = <<>> THEN <<>> ELSE Tail(memos)
        mk(owner, dps) == Ok(DataStore(coin, proof, DataStoreInfo(launcher_id, metadata, owner, dps)))
    IN  IF memos = <<>> THEN Err("MissingMemo")
        ELSE IF memos[1] # B32(launcher_id) THEN Err("InvalidMemo")
        ELSE IF Len(rest) = 2 /\ rest[1] = B32(metadata.root_hash)
             THEN IF IsB32(rest[2]) THEN mk(rest[2][2], <<>>) ELSE Err("InvalidMemo")
        ELSE IF rest = <<>> THEN Err("MissingMemo")
        ELSE IF ~IsB32(rest[1]) THEN Err("InvalidMemo")
        ELSE LET d == DecodeDelegated(Tail(rest), <<>>)
             IN  IF IsOk(d) THEN mk(rest[1][2], d.val) ELSE d

\* build_datastore without the comparison of the first memo with launcher_id
BuildDatastoreAnyLauncher(coin, launcher_id, proof, metadata, fallback_owner_ph, memos) ==
    LET rest == IF memos = <<>> THEN <<>> ELSE Tail(memos)
        mk(owner, dps) ==
            Ok(DataStore(coin, proof, DataStoreInfo(launcher_id, metadata, owner, dps)))
    IN  IF memos = <<>> THEN mk(fallback_owner_ph, <<>>)
        ELSE IF Len(rest) = 2 /\ rest[1] = B32(metadata.root_hash)
             THEN IF IsB32(rest[2]) THEN mk(rest[2][2], <<>>) ELSE Err("InvalidMemo")
        ELSE IF rest = <<>> THEN mk(fallback_owner_ph, <<>>)
        ELSE IF ~IsB32(rest[1]) THEN Err("InvalidMemo")
        ELSE LET d == DecodeDelegated(Tail(rest), <<>>)
             IN  IF IsOk(d) THEN mk(rest[1][2], d.val) ELSE d

BuildDatastore(coin, launcher_id, proof, metadata, fallback_owner_ph, memos) ==
    LET rest == IF memos = <<>> THEN <<>> ELSE Tail(memos)
        mk(owner, dps) ==
            Ok(DataStore(coin, proof, DataStoreInfo(launcher_id, metadata, owner, dps)))
    IN  IF memos = <<>> THEN mk(fallback_owner_ph, <<>>)
        ELSE IF memos[1] # B32(launcher_id) THEN Err("InvalidMemo")
        ELSE IF Len(rest) = 2 /\ rest[1] = B32(metadata.root_hash)
             THEN \* vanilla store using old memo format
                  IF IsB32(rest[2]) THEN mk(rest[2][2], <<>>) ELSE Err("InvalidMemo")
        ELSE IF rest = <<>> THEN mk(fallback_owner_ph, <<>>)
        ELSE IF ~IsB32(rest[1]) THEN Err("InvalidMemo")
        ELSE LET d == DecodeDelegated(Tail(rest), <<>>)
             IN  IF IsOk(d) THEN mk(rest[1][2], d.val) ELSE d

-----------------------------------------------------------------------------
(* Puzzles, tree hashes and the merkle tree of the delegated puzzles *)

SINGLETON_LAUNCHER_PUZZLE_HASH == <<"mod", "singleton_launcher">>
DL_METADATA_UPDATER_PUZZLE_HASH == <<"mod", "dl_metadata_updater">>

SingletonHash(launcher_id, inner_hash) == <<"singleton", launcher_id, inner_hash>>
StateLayerHash(metadata_hash, updater_hash, inner_hash) ==
    <<"state", metadata_hash, updater_hash, inner_hash>>
DelegationLayerHash(launcher_id, owner_puzzle_hash, merkle_root) ==
    <<"deleg", launcher_id, owner_puzzle_hash, merkle_root>>

\* the puzzle whose tree hash is leaf of the merkle tree for a delegated puzzle
LeafHash(dp) ==
    IF dp[1] = "Admin" THEN dp[2]
    ELSE IF dp[1] = "Writer" THEN <<"writer_filter", dp[2]>>
    ELSE <<"oracle", dp[2], dp[3]>>

\* get_merkle_tree(ctx, delegated_puzzles): the tree over the leaves, in order
MerkleLeaves(dps) == [i \in 1..Len(dps) |-> LeafHash(dps[i])]
MerkleRoot(dps) == <<"merkle_root", MerkleLeaves(dps)>>

\* MerkleTree::generate_proof(leaf): a proof when the leaf is in the tree
GenerateProof(dps, leaf) ==
    IF \E i \in 1..Len(dps) : LeafHash(dps[i]) = leaf
    THEN Some(<<"proof", leaf, MerkleRoot(dps)>>)
    ELSE None

\* programs
P2(i) == [kind |-> "p2", id |-> i]
WriterLayer(inner) == [kind |-> "writer", inner |-> inner]
OracleLayer(ph, fee) == [kind |-> "oracle", puzzle_hash |-> ph, fee |-> fee]
DelegationLayer(launcher_id, owner_puzzle_hash, merkle_root) ==
    [kind |-> "deleg", launcher_id |-> launcher_id,
     owner_puzzle_hash |-> owner_puzzle_hash, merkle_root |-> merkle_root]
NftStateLayer(metadata, updater_hash, inner) ==
    [kind |-> "state", metadata |-> metadata,
     metadata_updater_puzzle_hash |-> updater_hash, inner_puzzle |-> inner]
SingletonLayer(launcher_id, inner) ==
    [kind |-> "singleton", launcher_id |-> launcher_id, inner_puzzle |-> inner]
LauncherPuzzle == [kind |-> "launcher"]

RECURSIVE TreeHash(_)
TreeHash(p) ==
    CASE p.kind = "p2" -> H(p.id)
      [] p.kind = "writer" -> <<"writer_filter", TreeHash(p.inner)>>
      [] p.kind = "oracle" -> <<"oracle", p.puzzle_hash, p.fee>>
      [] p.kind = "deleg" ->
            DelegationLayerHash(p.launcher_id, p.owner_puzzle_hash, p.merkle_root)
      [] p.kind = "state" ->
            StateLayerHash(MetadataHash(p.metadata), p.metadata_updater_puzzle_hash,
                           TreeHash(p.inner_puzzle))
      [] p.kind = "singleton" -> SingletonHash(p.launcher_id, TreeHash(p.inner_puzzle))
      [] p.kind = "launcher" -> SINGLETON_LAUNCHER_PUZZLE_HASH

-----------------------------------------------------------------------------
(* Conditions and the run of a puzzle *)

CreateCoin(puzzle_hash, amount, memos) == <<"CreateCoin", puzzle_hash, amount, memos>>
\* NewMetadataOutput: the output of the metadata updater, the new metadata and the
\* new metadata updater puzzle hash
NewMetadataOutput(new_metadata, new_metadata_updater_puzhash) ==
    <<"NewMetadata", new_metadata, new_metadata_updater_puzhash>>
NewMetadataCondition(metadata) ==
    NewMetadataOutput(metadata, DL_METADATA_UPDATER_PUZZLE_HASH)
NewMerkleRootCondition(root, memos) == <<"NewMerkleRoot", root, memos>>
CreatePuzzleAnnouncement == <<"CreatePuzzleAnnouncement">>

IsOddCreateCoin(c) == c[1] = "CreateCoin" /\ c[3] % 2 = 1

OddCreateCoins(conds) == {i \in 1..Len(conds) : IsOddCreateCoin(conds[i])}

\* the solution of a p2 puzzle: the conditions it is to emit, or a raise
P2Solution(conditions) == [raise |-> FALSE, conditions |-> conditions, cost |-> 1]
RaiseSolution == [raise |-> TRUE, conditions |-> <<>>, cost |-> 1]

\* the cost ceiling of run_puzzle, in units of 10^9
MAX_COST == 11

\* a solution that makes the puzzle emit the conditions at a cost above the ceiling
HeavySolution(conditions) ==
    [raise |-> FALSE, conditions |-> conditions, cost |-> MAX_COST + 1]

DelegationLayerSolution(merkle_proof, puzzle_reveal, puzzle_solution) ==
    [merkle_proof |-> merkle_proof, puzzle_reveal |-> puzzle_reveal,
     puzzle_solution |-> puzzle_solution]

\* the u64 of an oracle fee as a coin amount (the model's fees fit two bytes)
FeeAmount(fee) == fee[7] * 256 + fee[8]

RECURSIVE MorphConditions(_, _, _)
\* the delegation layer over the conditions of a delegated puzzle: a new merkle
\* root recreates the layer under that root, an odd CreateCoin is refused, and
\* without a new merkle root the layer recreates itself
MorphConditions(layer, conds, found) ==
    IF conds = <<>>
    THEN IF found THEN Ok(<<>>)
         ELSE Ok(<<CreateCoin(TreeHash(layer), 1, <<B32(layer.launcher_id)>>)>>)
    ELSE LET c == Head(conds)
         IN  IF IsOddCreateCoin(c) THEN Err("Eval")
             ELSE IF c[1] = "NewMerkleRoot"
             THEN IF found THEN Err("Eval")
                  ELSE LET rest == MorphConditions(layer, Tail(conds), TRUE)
                           cc == CreateCoin(
                                    DelegationLayerHash(layer.launcher_id,
                                                        layer.owner_puzzle_hash, c[2]),
                                    1, c[3])
                       IN  IF IsOk(rest) THEN Ok(<<cc>> \o rest.val) ELSE rest
             ELSE LET rest == MorphConditions(layer, Tail(conds), found)
                  IN  IF IsOk(rest) THEN Ok(<<c>> \o rest.val) ELSE rest

RECURSIVE Evaluate(_, _)
\* the output of a puzzle on a solution: its conditions, or an EvalErr
Evaluate(puzzle, solution) ==
    CASE puzzle.kind = "p2" ->
            IF solution.raise THEN Err("Eval") ELSE Ok(solution.conditions)
      [] puzzle.kind = "writer" -> Evaluate(puzzle.inner, solution)
      [] puzzle.kind = "oracle" ->
            Ok(<<CreateCoin(puzzle.puzzle_hash, FeeAmount(puzzle.fee), <<>>),
                 CreatePuzzleAnnouncement>>)
      [] puzzle.kind = "deleg" ->
            LET inner == Evaluate(solution.puzzle_reveal, solution.puzzle_solution)
                leaf == TreeHash(solution.puzzle_reveal)
            IN  IF solution.merkle_proof = None
                THEN \* the owner's path
                     IF leaf = puzzle.owner_puzzle_hash THEN inner ELSE Err("Eval")
                ELSE IF solution.merkle_proof[1] # <<"proof", leaf, puzzle.merkle_root>>
                     THEN Err("Eval")
                     ELSE IF IsOk(inner)
                          THEN MorphConditions(puzzle, inner.val, FALSE)
                          ELSE inner
      [] OTHER -> Err("Eval")

RECURSIVE Cost(_, _)
\* the cost of running a puzzle on a solution: a layer adds to the cost of the
\* puzzle it runs
Cost(puzzle, solution) ==
    CASE puzzle.kind = "p2" -> solution.cost
      [] puzzle.kind = "writer" -> 1 + Cost(puzzle.inner, solution)
      [] puzzle.kind = "deleg" ->
            1 + Cost(solution.puzzle_reveal, solution.puzzle_solution)
      [] OTHER -> 1

\* clvmr::run_program(allocator, dialect, puzzle, solution, max_cost)
RunProgram(puzzle, solution, max_cost) ==
    IF Cost(puzzle, solution) > max_cost THEN Err("Eval")
    ELSE Evaluate(puzzle, solution)

\* run_puzzle with a second attempt under twice the ceiling
RunPuzzleRetrying(puzzle, solution) ==
    IF IsOk(RunProgram(puzzle, solution, MAX_COST))
    THEN RunProgram(puzzle, solution, MAX_COST)
    ELSE RunProgram(puzzle, solution, 2 * MAX_COST)

\* run_puzzle(allocator, puzzle, solution): the conditions, or an EvalErr
RunPuzzle(puzzle, solution) == RunProgram(puzzle, solution, MAX_COST)

-----------------------------------------------------------------------------
(* The forward path: layers, DataStore::spend, the launcher *)

CoinSpend(coin, puzzle_reveal, solution) ==
    [coin |-> coin, puzzle_reveal |-> puzzle_reveal, solution |-> solution]

NftStateLayerSolution(inner_solution) == [inner_solution |-> inner_solution]
SingletonSolution(lineage_proof, amount, inner_solution) ==
    [lineage_proof |-> lineage_proof, amount |-> amount, inner_solution |-> inner_solution]

IntoLayersWithoutDelegationLayer(info, inner_puzzle) ==
    SingletonLayer(info.launcher_id,
        NftStateLayer(info.metadata, DL_METADATA_UPDATER_PUZZLE_HASH, inner_puzzle))

IntoLayersWithDelegationLayer(info) ==
    SingletonLayer(info.launcher_id,
        NftStateLayer(info.metadata, DL_METADATA_UPDATER_PUZZLE_HASH,
            DelegationLayer(info.launcher_id, info.owner_puzzle_hash,
                            MerkleRoot(info.delegated_puzzles))))

\* DataStoreInfo::inner_puzzle_hash: the state layer's hash, as the info has it
InfoInnerPuzzleHash(info) ==
    StateLayerHash(MetadataHash(info.metadata), DL_METADATA_UPDATER_PUZZLE_HASH,
        IF info.delegated_puzzles = <<>>
        THEN info.owner_puzzle_hash
        ELSE DelegationLayerHash(info.launcher_id, info.owner_puzzle_hash,
                                 MerkleRoot(info.delegated_puzzles)))

InfoPuzzleHash(info) == SingletonHash(info.launcher_id, InfoInnerPuzzleHash(info))

InnerSpend(puzzle, solution) == [puzzle |-> puzzle, solution |-> solution]

\* spend refusing an inner puzzle for which the tree gives no proof
SpendMembersOnly(self, inner_spend) ==
    IF self.info.delegated_puzzles = <<>>
    THEN LET layers == IntoLayersWithoutDelegationLayer(self.info, inner_spend.puzzle)
             solution == SingletonSolution(self.proof, self.coin.amount,
                            NftStateLayerSolution(inner_spend.solution))
         IN  Ok(CoinSpend(self.coin, layers, solution))
    ELSE LET layers == IntoLayersWithDelegationLayer(self.info)
             puzzle_reveal_hash == TreeHash(layers)
             merkle_proof == GenerateProof(self.info.delegated_puzzles, puzzle_reveal_hash)
             inner_solution ==
                DelegationLayerSolution(merkle_proof, inner_spend.puzzle,
                                        inner_spend.solution)
             solution == SingletonSolution(self.proof, self.coin.amount,
                            NftStateLayerSolution(inner_solution))
         IN  IF merkle_proof = None THEN Err("InvalidMerkleProof")
             ELSE Ok(CoinSpend(self.coin, layers, solution))

\* DataStore::spend
Spend(self, inner_spend) ==
    IF self.info.delegated_puzzles = <<>>
    THEN LET layers == IntoLayersWithoutDelegationLayer(self.info, inner_spend.puzzle)
             solution == SingletonSolution(self.proof, self.coin.amount,
                            NftStateLayerSolution(inner_spend.solution))
         IN  Ok(CoinSpend(self.coin, layers, solution))
    ELSE LET layers == IntoLayersWithDelegationLayer(self.info)
             puzzle_reveal_hash == TreeHash(layers)
             inner_solution ==
                DelegationLayerSolution(
                    GenerateProof(self.info.delegated_puzzles, puzzle_reveal_hash),
                    inner_spend.puzzle, inner_spend.solution)
             solution == SingletonSolution(self.proof, self.coin.amount,
                            NftStateLayerSolution(inner_solution))
         IN  Ok(CoinSpend(self.coin, layers, solution))

\* child_lineage_proof naming the coin itself as the parent's parent
ChildLineageProofOfCoin(self) ==
    LineageProof(CoinId(self.coin), InfoInnerPuzzleHash(self.info), self.coin.amount)

\* DataStore::child_lineage_proof
ChildLineageProof(self) ==
    LineageProof(self.coin.parent_coin_info, InfoInnerPuzzleHash(self.info),
                 self.coin.amount)

\* Launcher::new, without the conditions of the parent
LauncherNew(parent_coin_id, amount) ==
    [coin |-> Coin(parent_coin_id, SINGLETON_LAUNCHER_PUZZLE_HASH, amount),
     singleton_amount |-> amount]

LauncherWithSingletonAmount(self, singleton_amount) ==
    [self EXCEPT !.singleton_amount = singleton_amount]

LauncherSolution(singleton_puzzle_hash, amount, key_value_list) ==
    [singleton_puzzle_hash |-> singleton_puzzle_hash, amount |-> amount,
     key_value_list |-> key_value_list]

\* DLLauncherKVList / OldDLLauncherKVList as the CLVM list they serialize to:
\* first is <<"pair", metadata>>, <<"atom", root_hash>>, or a value neither parses
KVList(first, state_layer_inner_puzzle_hash, memos) ==
    [first |-> first, state_layer_inner_puzzle_hash |-> state_layer_inner_puzzle_hash,
     memos |-> memos]

\* Launcher::spend creating the singleton with the launcher coin's amount
LauncherSpendCoinAmount(self, singleton_inner_puzzle_hash, key_value_list) ==
    LET singleton_puzzle_hash ==
            SingletonHash(CoinId(self.coin), singleton_inner_puzzle_hash)
    IN  [cs |-> CoinSpend(self.coin, LauncherPuzzle,
                    LauncherSolution(singleton_puzzle_hash, self.coin.amount,
                                     key_value_list)),
         coin |-> Coin(CoinId(self.coin), singleton_puzzle_hash, self.coin.amount)]

\* Launcher::spend: the CoinSpend it inserts and the singleton coin it returns
LauncherSpend(self, singleton_inner_puzzle_hash, key_value_list) ==
    LET singleton_puzzle_hash ==
            SingletonHash(CoinId(self.coin), singleton_inner_puzzle_hash)
    IN  [cs |-> CoinSpend(self.coin, LauncherPuzzle,
                    LauncherSolution(singleton_puzzle_hash, self.singleton_amount,
                                     key_value_list)),
         coin |-> Coin(CoinId(self.coin), singleton_puzzle_hash, self.singleton_amount)]

-----------------------------------------------------------------------------
(* The reverse path: DataStore::from_spend *)

\* the result of from_spend, the number of puzzles it ran, and the conditions of
\* the state layer's inner puzzle when that run succeeded
Outcome(res, runs, inner) == [res |-> res, runs |-> runs, inner |-> inner]

OkSome(r) == IF IsOk(r) THEN Ok(Some(r.val)) ELSE r

MaxOf(S) == CHOOSE i \in S : \A j \in S : j <= i
MinOf(S) == CHOOSE i \in S : \A j \in S : i <= j

\* the loop keeping the last CreateCoin whatever its amount
LastCreateCoin(conds) ==
    LET ccs == {i \in 1..Len(conds) : conds[i][1] = "CreateCoin"}
    IN  IF ccs = {} THEN None ELSE Some(conds[MaxOf(ccs)])

\* the loop over inner_conditions keeps the last odd CreateCoin it meets
LastOddCreateCoin(conds) ==
    IF OddCreateCoins(conds) = {} THEN None ELSE Some(conds[MaxOf(OddCreateCoins(conds))])

\* Iterator::find keeps the first
FirstOddCreateCoin(conds) ==
    IF OddCreateCoins(conds) = {} THEN None ELSE Some(conds[MinOf(OddCreateCoins(conds))])

NewMetadataConditions(conds) == {i \in 1..Len(conds) : conds[i][1] = "NewMetadata"}

\* get_next_metadata left out: the metadata of the spent coin is kept
NextMetadataStale(state_metadata, conds) == state_metadata

\* the metadata after the spend with only the root hash carried over
NextMetadataRootOnly(state_metadata, conds) ==
    IF NewMetadataConditions(conds) = {} THEN RootHashOnly(state_metadata.root_hash)
    ELSE conds[MaxOf(NewMetadataConditions(conds))][2]

\* the metadata after the spend: get_next_metadata of the last update, if any
NextMetadata(state_metadata, conds) ==
    IF NewMetadataConditions(conds) = {} THEN state_metadata
    ELSE conds[MaxOf(NewMetadataConditions(conds))][2]

\* LauncherSolution::<DLLauncherKVList<M, Bytes>>::from_clvm: the metadata of the
\* list is a pair; an atom in its place is the failure ExpectedPair
ParseLauncherSolution(solution) ==
    CASE solution.key_value_list.first[1] = "pair" -> Ok(solution)
      [] solution.key_value_list.first[1] \in {"atom", "short"} -> Err("ExpectedPair")
      [] OTHER -> Err("Custom")

\* LauncherSolution::<OldDLLauncherKVList<Bytes>>::from_clvm: the root hash of the
\* list is an atom of 32 bytes
ParseOldLauncherSolution(solution) ==
    CASE solution.key_value_list.first[1] = "atom" -> Ok(solution)
      [] solution.key_value_list.first[1] = "short" -> Err("WrongAtomLength")
      [] OTHER -> Err("ExpectedAtom")

\* DriverError::FromClvm(err)
DriverFromClvm(err) == Err("FromClvm(" \o err \o ")")

\* the launcher branch taking the launcher coin's amount for the eve coin
FromSpendLauncherCoinAmount(cs) ==
    LET launcher_id == CoinId(cs.coin)
        proof == EveProof(cs.coin.parent_coin_info, cs.coin.amount)
        solution == cs.solution
        kv == solution.key_value_list
        new_coin == Coin(launcher_id, solution.singleton_puzzle_hash, cs.coin.amount)
        current == ParseLauncherSolution(solution)
        old == ParseOldLauncherSolution(solution)
    IN  IF IsOk(current)
        THEN OkSome(BuildDatastore(new_coin, launcher_id, proof, kv.first[2],
                        kv.state_layer_inner_puzzle_hash,
                        <<B32(launcher_id)>> \o kv.memos))
        ELSE IF current.err = "ExpectedPair"
        THEN IF IsOk(old)
             THEN OkSome(BuildDatastore(new_coin, launcher_id, proof,
                            RootHashOnly(kv.first[2]),
                            kv.state_layer_inner_puzzle_hash, kv.memos))
             ELSE DriverFromClvm(old.err)
        ELSE DriverFromClvm(current.err)

\* the launcher branch trying the legacy format after any parse failure
FromSpendLauncherAnyFailure(cs) ==
    LET launcher_id == CoinId(cs.coin)
        proof == EveProof(cs.coin.parent_coin_info, cs.coin.amount)
        solution == cs.solution
        kv == solution.key_value_list
        new_coin == Coin(launcher_id, solution.singleton_puzzle_hash, solution.amount)
        current == ParseLauncherSolution(solution)
        old == ParseOldLauncherSolution(solution)
    IN  IF IsOk(current)
        THEN OkSome(BuildDatastore(new_coin, launcher_id, proof, kv.first[2],
                        kv.state_layer_inner_puzzle_hash,
                        <<B32(launcher_id)>> \o kv.memos))
        ELSE IF IsOk(old)
             THEN OkSome(BuildDatastore(new_coin, launcher_id, proof,
                            RootHashOnly(kv.first[2]),
                            kv.state_layer_inner_puzzle_hash, kv.memos))
             ELSE DriverFromClvm(old.err)

\* DataStore::from_spend, the launcher branch
FromSpendLauncher(cs) ==
    LET launcher_id == CoinId(cs.coin)
        proof == EveProof(cs.coin.parent_coin_info, cs.coin.amount)
        solution == cs.solution
        kv == solution.key_value_list
        new_coin == Coin(launcher_id, solution.singleton_puzzle_hash, solution.amount)
        current == ParseLauncherSolution(solution)
        old == ParseOldLauncherSolution(solution)
    IN  IF IsOk(current)
        THEN OkSome(BuildDatastore(new_coin, launcher_id, proof, kv.first[2],
                        kv.state_layer_inner_puzzle_hash,
                        <<B32(launcher_id)>> \o kv.memos))
        ELSE IF current.err = "ExpectedPair"
        THEN IF IsOk(old)
             THEN OkSome(BuildDatastore(new_coin, launcher_id, proof,
                            RootHashOnly(kv.first[2]),
                            kv.state_layer_inner_puzzle_hash, kv.memos))
             ELSE DriverFromClvm(old.err)
        ELSE DriverFromClvm(current.err)

\* SingletonLayer::lineage_proof(cs.coin)
\* the exit of the delegation layer keeping the caller's authorization set
AfterDelegatedRunKeepingSet(delegation_layer, odd_create_coin, parent_delegated_puzzles) ==
    [owner_puzzle_hash |->
        IF odd_create_coin = None
            \/ odd_create_coin[1][2] = TreeHash(delegation_layer)
        THEN delegation_layer.owner_puzzle_hash
        ELSE odd_create_coin[1][2],
     delegated_puzzles |-> parent_delegated_puzzles]

\* the owner and the authorization set from_spend derives from the run of the
\* delegated puzzle: carried over, recreated under the same hash, or exited
AfterDelegatedRun(delegation_layer, odd_create_coin, parent_delegated_puzzles) ==
    IF odd_create_coin = None
    THEN [owner_puzzle_hash |-> delegation_layer.owner_puzzle_hash,
          delegated_puzzles |-> parent_delegated_puzzles]
    ELSE IF odd_create_coin[1][2] = TreeHash(delegation_layer)
    THEN [owner_puzzle_hash |-> delegation_layer.owner_puzzle_hash,
          delegated_puzzles |-> parent_delegated_puzzles]
    ELSE [owner_puzzle_hash |-> odd_create_coin[1][2], delegated_puzzles |-> <<>>]

\* the successor's memos sent to build_datastore only beyond the launcher-id memo
\* and one more
CarriesManifestBeyondTwo(memos) == Len(memos) > 2

\* the test of from_spend for a CreateCoin recreated with memos
CarriesManifest(memos) == Len(memos) > 1

SingletonLineageProof(singleton_layer, coin) ==
    LineageProof(coin.parent_coin_info, TreeHash(singleton_layer.inner_puzzle),
                 coin.amount)

FromSpendSingleton(cs, parent_delegated_puzzles) ==
    LET singleton_layer == cs.puzzle_reveal
        state_layer == singleton_layer.inner_puzzle
        inner_puzzle == state_layer.inner_puzzle
        inner_solution == cs.solution.inner_solution.inner_solution
        inner_output == RunPuzzle(inner_puzzle, inner_solution)
    IN  IF ~IsOk(inner_output) THEN Outcome(inner_output, 1, None)
        ELSE
        LET inner_conditions == inner_output.val
            found == LastOddCreateCoin(inner_conditions)
        IN  IF found = None THEN Outcome(Err("MissingChild"), 1, Some(inner_conditions))
            ELSE
            LET create_coin == found[1]
                new_metadata == NextMetadata(state_layer.metadata, inner_conditions)
                new_puzzle_hash ==
                    SingletonHash(singleton_layer.launcher_id,
                        StateLayerHash(MetadataHash(new_metadata),
                                       state_layer.metadata_updater_puzzle_hash,
                                       create_coin[2]))
                new_coin == Coin(CoinId(cs.coin), new_puzzle_hash, create_coin[3])
                proof == SingletonLineageProof(singleton_layer, cs.coin)
                object(owner, dps) ==
                    Ok(Some(DataStore(new_coin, proof,
                            DataStoreInfo(singleton_layer.launcher_id, new_metadata,
                                          owner, dps))))
            IN  IF CarriesManifest(create_coin[4])
                THEN Outcome(OkSome(BuildDatastore(new_coin, singleton_layer.launcher_id,
                                        proof, new_metadata, TreeHash(inner_puzzle),
                                        create_coin[4])),
                             1, Some(inner_conditions))
                ELSE IF inner_puzzle.kind = "deleg"
                THEN LET output == RunPuzzle(inner_solution.puzzle_reveal,
                                             inner_solution.puzzle_solution)
                     IN  IF ~IsOk(output) THEN Outcome(output, 2, Some(inner_conditions))
                         ELSE
                         LET odd == FirstOddCreateCoin(output.val)
                             after == AfterDelegatedRun(inner_puzzle, odd,
                                                        parent_delegated_puzzles)
                         IN  Outcome(object(after.owner_puzzle_hash,
                                            after.delegated_puzzles),
                                     2, Some(inner_conditions))
                ELSE Outcome(object(TreeHash(inner_puzzle), <<>>),
                             1, Some(inner_conditions))

\* from_spend reading no authorization set from its caller
FromSpendUnassisted(cs, parent_delegated_puzzles) ==
    IF cs.coin.puzzle_hash = SINGLETON_LAUNCHER_PUZZLE_HASH
    THEN Outcome(FromSpendLauncher(cs), 0, None)
    ELSE IF cs.puzzle_reveal.kind # "singleton" THEN Outcome(Ok(None), 0, None)
    ELSE IF cs.puzzle_reveal.inner_puzzle.kind # "state" THEN Outcome(Ok(None), 0, None)
    ELSE FromSpendSingleton(cs, <<>>)

\* from_spend reporting the mismatch of a layer as an error
FromSpendStrict(cs, parent_delegated_puzzles) ==
    IF cs.coin.puzzle_hash = SINGLETON_LAUNCHER_PUZZLE_HASH
    THEN Outcome(FromSpendLauncher(cs), 0, None)
    ELSE IF cs.puzzle_reveal.kind # "singleton" THEN Outcome(Ok(None), 0, None)
    ELSE IF cs.puzzle_reveal.inner_puzzle.kind # "state"
    THEN Outcome(Err("NonStandardLayer"), 0, None)
    ELSE FromSpendSingleton(cs, parent_delegated_puzzles)

FromSpend(cs, parent_delegated_puzzles) ==
    IF cs.coin.puzzle_hash = SINGLETON_LAUNCHER_PUZZLE_HASH
    THEN Outcome(FromSpendLauncher(cs), 0, None)
    ELSE IF cs.puzzle_reveal.kind # "singleton" THEN Outcome(Ok(None), 0, None)
    ELSE IF cs.puzzle_reveal.inner_puzzle.kind # "state" THEN Outcome(Ok(None), 0, None)
    ELSE FromSpendSingleton(cs, parent_delegated_puzzles)

\* DataStore::owner_create_coin_condition
OwnerCreateCoinCondition(launcher_id, new_inner_puzzle_hash, new_delegated_puzzles, hint_delegated_puzzles) ==
    LET new_puzzle_hash ==
            IF new_delegated_puzzles = <<>>
            THEN DelegationLayerHash(launcher_id, new_inner_puzzle_hash,
                                     MerkleRoot(new_delegated_puzzles))
            ELSE new_inner_puzzle_hash
    IN  CreateCoin(new_puzzle_hash, 1,
                   IF hint_delegated_puzzles
                   THEN GetRecreationMemos(launcher_id, new_inner_puzzle_hash,
                                           new_delegated_puzzles)
                   ELSE <<B32(launcher_id)>>)

\* puzzle_conditions: the conditions of a run, or a ConditionError
PuzzleConditions(puzzle, solution) ==
    LET output == RunPuzzle(puzzle, solution)
    IN  IF IsOk(output) THEN output ELSE Err("Condition")

RECURSIVE CreatedCoins(_)
\* the first loop of non_ephemeral_coins: the coins created by the spends, or the
\* error of the first spend whose puzzle fails
CreatedCoins(coin_spends) ==
    IF coin_spends = <<>> THEN Ok({})
    ELSE LET coin_spend == Head(coin_spends)
             conditions == PuzzleConditions(coin_spend.puzzle_reveal, coin_spend.solution)
             rest == CreatedCoins(Tail(coin_spends))
         IN  IF ~IsOk(conditions) THEN conditions
             ELSE IF ~IsOk(rest) THEN rest
             ELSE Ok({Coin(CoinId(coin_spend.coin), c[2], c[3]) :
                        c \in {conditions.val[i] : i \in
                                {j \in 1..Len(conditions.val) :
                                    conditions.val[j][1] = "CreateCoin"}}}
                     \cup rest.val)

\* non_ephemeral_coins dropping a coin only when an earlier spend created it
NonEphemeralCoinsOnePass(coin_spends) ==
    LET created == CreatedCoins(coin_spends)
        keep(i) == LET before == CreatedCoins(SubSeq(coin_spends, 1, i - 1))
                   IN  coin_spends[i].coin \notin before.val
        kept == {i \in 1..Len(coin_spends) : keep(i)}
        pick[i \in 0..Len(coin_spends)] ==
            IF i = 0 THEN <<>>
            ELSE IF i \in kept THEN Append(pick[i - 1], coin_spends[i].coin)
            ELSE pick[i - 1]
    IN  IF ~IsOk(created) THEN created ELSE Ok(pick[Len(coin_spends)])

\* non_ephemeral_coins(coin_spends)
NonEphemeralCoins(coin_spends) ==
    LET created_coins == CreatedCoins(coin_spends)
        coins == [i \in 1..Len(coin_spends) |-> coin_spends[i].coin]
    IN  IF ~IsOk(created_coins) THEN created_coins
        ELSE Ok(SelectSeq(coins, LAMBDA coin : coin \notin created_coins.val))

\* the CAT layer curried with an asset id over an inner puzzle
CatPuzzle(asset_id, inner_puzzle) ==
    [kind |-> "cat", asset_id |-> asset_id, inner_puzzle |-> inner_puzzle]

CoinProof(parent_coin_info, inner_puzzle_hash, amount) ==
    [parent_coin_info |-> parent_coin_info, inner_puzzle_hash |-> inner_puzzle_hash,
     amount |-> amount]

CatSpendItem(coin, inner_spend, lineage_proof, extra_delta) ==
    [coin |-> coin, inner_spend |-> inner_spend, lineage_proof |-> lineage_proof,
     extra_delta |-> extra_delta]

RECURSIVE CreatedAmount(_)
\* the sum of the amounts of the CreateCoin conditions of a run
CreatedAmount(conditions) ==
    IF conditions = <<>> THEN 0
    ELSE (IF Head(conditions)[1] = "CreateCoin" THEN Head(conditions)[3] ELSE 0)
            + CreatedAmount(Tail(conditions))

\* the delta of an item: coin amount - extra_delta - created amounts
CatDelta(item, conditions) ==
    item.coin.amount - item.extra_delta - CreatedAmount(conditions)

RECURSIVE CatFinishFrom(_, _, _, _)
\* the loop of CatSpend::finish from item index on, total_delta being the sum of
\* the deltas before it: the CoinSpends handed to the context, and the result
CatFinishFrom(asset_id, cat_spends, index, total_delta) ==
    IF index > Len(cat_spends) THEN [res |-> Ok(<<>>), spends |-> <<>>]
    ELSE LET len == Len(cat_spends)
             item == cat_spends[index]
             output == Evaluate(item.inner_spend.puzzle, item.inner_spend.solution)
         IN  IF ~IsOk(output) THEN [res |-> output, spends |-> <<>>]
             ELSE LET delta == CatDelta(item, output.val)
                      prev_subtotal == total_delta
                      prev_cat == cat_spends[IF index = 1 THEN len ELSE index - 1]
                      next_cat == cat_spends[IF index = len THEN 1 ELSE index + 1]
                      puzzle_reveal == CatPuzzle(asset_id, item.inner_spend.puzzle)
                      solution ==
                        [inner_puzzle_solution |-> item.inner_spend.solution,
                         lineage_proof |-> Some(item.lineage_proof),
                         prev_coin_id |-> CoinId(prev_cat.coin),
                         this_coin_info |-> item.coin,
                         next_coin_proof |->
                            CoinProof(next_cat.coin.parent_coin_info,
                                      TreeHash(item.inner_spend.puzzle),
                                      next_cat.coin.amount),
                         prev_subtotal |-> prev_subtotal,
                         extra_delta |-> item.extra_delta]
                      rest == CatFinishFrom(asset_id, cat_spends, index + 1,
                                            total_delta + delta)
                  IN  [res |-> rest.res,
                       spends |-> <<CoinSpend(item.coin, puzzle_reveal, solution)>>
                                    \o rest.spends]

\* CatSpend::finish(ctx)
CatFinish(asset_id, cat_spends) == CatFinishFrom(asset_id, cat_spends, 1, 0)

-----------------------------------------------------------------------------
(* Inputs of the pure calls *)

SeqsUpTo(S, n) == UNION {[1..k -> S] : k \in 0..n}

OracleFees == {U64(0), U64(128), U64(1000)}

DelegatedPuzzles ==
    {Admin(h) : h \in Hashes} \cup {Writer(h) : h \in Hashes}
        \cup {Oracle(H(1), f) : f \in OracleFees}

DelegatedLists == SeqsUpTo(DelegatedPuzzles, MaxDelegated)

MemoAlphabet ==
    {B32(h) : h \in Hashes}
        \cup {Raw(<<AdminPuzzle>>), Raw(<<OraclePuzzle>>), Raw(<<>>), Raw(<<0, 128>>)}

MemoLists == SeqsUpTo(MemoAlphabet, MaxMemos)

\* u64 values: the small ones, and for every width the values around the sign bit
EdgeFee(len, first, fill) ==
    [i \in 1..8 |-> IF i < 9 - len THEN 0 ELSE IF i = 9 - len THEN first ELSE fill]

FeeInputs ==
    {U64(n) : n \in 0..MaxFee}
        \cup {EdgeFee(len, first, fill) :
                len \in 1..8, first \in {1, 127, 128, 255}, fill \in {0, 255}}

\* the spends of a bundle: a coin, the coin it creates, a coin of another parent
\* with the created coin's puzzle hash and amount; each creates nothing, creates
\* CreateCoin(h2, 1), or fails
BundleCoins ==
    {Coin(H(1), H(1), 0), Coin(CoinId(Coin(H(1), H(1), 0)), H(2), 1), Coin(H(2), H(2), 1)}

BundleSpends ==
    {CoinSpend(coin, P2(1), solution) :
        coin \in BundleCoins,
        solution \in {P2Solution(<<>>), P2Solution(<<CreateCoin(H(2), 1, <<>>)>>),
                      RaiseSolution}}

\* the items of a CAT spend: three coins of one asset, two of them under the same
\* inner puzzle; each creates its own amount, creates nothing, melts one unit
\* (extra_delta 1 and one unit less created), or fails
CatCoins ==
    [i \in 1..3 |-> Coin(H(i), <<"cat", H(1), H(IF i = 2 THEN 2 ELSE 1)>>, i)]

CatItemsOf(i) ==
    {CatSpendItem(CatCoins[i], [puzzle |-> P2(IF i = 2 THEN 2 ELSE 1), solution |-> sol[1]],
                  LineageProof(H(1), H(1), i), sol[2]) :
        sol \in {<<P2Solution(<<CreateCoin(H(1), i, <<>>)>>), 0>>,
                 <<P2Solution(<<>>), 0>>,
                 <<P2Solution(<<CreateCoin(H(1), i - 1, <<>>)>>), 1>>,
                 <<RaiseSolution, 0>>}}

CatItems == UNION {CatItemsOf(i) : i \in 1..3}

\* the coin and the proof handed to build_datastore by the pure calls
SomeCoin == Coin(H(1), H(1), 1)
SomeProof == EveProof(H(1), 1)

-----------------------------------------------------------------------------
(* StandardWallet::new: the wallet's objects and its tasks after construction *)

Callers == {"c1", "c2"}
Bg == "bg"
Tasks == Callers \cup {Bg}

\* an empty key store and an empty state behind their mutexes; join_handle is set
NewWallet ==
    [key_store |-> 0, derivations |-> <<>>, applied |-> <<>>, responses |-> 0,
     dropped |-> FALSE]

\* the callers have not called yet; the spawned task is about to run its initial
\* sync and has not been polled yet
NewTasks ==
    [t \in Tasks |->
        [pc |-> IF t = Bg THEN "sync" ELSE "idle", running |-> t # Bg,
         next |-> 0, target |-> 0, inserted |-> FALSE, event |-> None,
         sync_failed |-> FALSE]]

\* peer.receiver().resubscribe(): a receiver with nothing queued
NewChannel == [queue |-> <<>>, sent |-> 0, failed |-> "no", received |-> <<>>]

-----------------------------------------------------------------------------
(* The pure calls *)

NoCall == [op |-> "none"]
NoStep == [op |-> "none"]
NoErrors == [spend |-> {}, from_spend |-> {}]

\* the errors returned so far, with the result of one more call
Returned(by, res) ==
    IF IsOk(res) THEN errors ELSE [errors EXCEPT ![by] = @ \cup {res.err}]
NoLauncher == [coin |-> SomeCoin, singleton_amount |-> 1]

\* get_recreation_memos, and build_datastore on the memos it returns
CallRecreate ==
    \E lid \in Hashes, owner \in Hashes, root \in Hashes, dps \in DelegatedLists :
        LET memos == GetRecreationMemos(lid, owner, dps)
        IN  call' = [op |-> "recreate", launcher_id |-> lid, owner |-> owner,
                     metadata |-> RootHashOnly(root), delegated_puzzles |-> dps,
                     memos |-> memos,
                     out |-> BuildDatastore(SomeCoin, lid, SomeProof, RootHashOnly(root),
                                            H(NumHashes), memos)]

\* build_datastore on the legacy recreation memos [launcher_id, owner_puzzle_hash]
CallLegacy ==
    \E lid \in Hashes, owner \in Hashes, root \in Hashes :
        LET memos == <<B32(lid), B32(owner)>>
        IN  call' = [op |-> "legacy", launcher_id |-> lid, owner |-> owner,
                     metadata |-> RootHashOnly(root), memos |-> memos,
                     out |-> BuildDatastore(SomeCoin, lid, SomeProof, RootHashOnly(root),
                                            H(NumHashes), memos)]

\* build_datastore on any memo list
CallBuild ==
    \E lid \in Hashes, root \in {H(1), H(NumHashes)}, memos \in MemoLists :
        call' = [op |-> "build", launcher_id |-> lid, metadata |-> RootHashOnly(root),
                 fallback |-> H(NumHashes), memos |-> memos,
                 out |-> BuildDatastore(SomeCoin, lid, SomeProof, RootHashOnly(root),
                                        H(NumHashes), memos)]

\* the fee memo get_recreation_memos writes for one oracle
CallFee ==
    \E fee \in FeeInputs :
        call' = [op |-> "fee", fee |-> fee,
                 memos |-> GetRecreationMemos(H(1), H(1), <<Oracle(H(1), fee)>>)]

\* owner_create_coin_condition for a new owner and a new authorization set
CallOwnerCreateCoin ==
    \E lid \in Hashes, owner \in Hashes, dps \in DelegatedLists, hint \in BOOLEAN :
        call' = [op |-> "owner_create_coin", launcher_id |-> lid, owner |-> owner,
                 delegated_puzzles |-> dps, hint |-> hint,
                 out |-> OwnerCreateCoinCondition(lid, owner, dps, hint)]

\* non_ephemeral_coins on a bundle
CallNonEphemeral ==
    \E coin_spends \in SeqsUpTo(BundleSpends, MaxBundle) :
        call' = [op |-> "non_ephemeral", coin_spends |-> coin_spends,
                 out |-> NonEphemeralCoins(coin_spends)]

\* CatSpend::new(asset_id), spend(..) for every item, finish(ctx)
CallCatFinish ==
    \E cat_spends \in SeqsUpTo(CatItems, MaxItems) :
        call' = [op |-> "cat_finish", cat_spends |-> cat_spends,
                 out |-> CatFinish(H(1), cat_spends)]

InitMemo ==
    /\ call = NoCall
    /\ launcher = NoLauncher
    /\ ds = None
    /\ step = NoStep
    /\ steps = 0
    /\ errors = NoErrors
    /\ wallet = NewWallet
    /\ tasks = NewTasks
    /\ channel = NewChannel

\* one pure call per behaviour
NextMemo ==
    /\ call = NoCall
    /\ \/ CallRecreate
       \/ CallLegacy
       \/ CallBuild
       \/ CallFee
       \/ CallOwnerCreateCoin
       \/ CallNonEphemeral
       \/ CallCatFinish
    /\ UNCHANGED <<launcher, ds, step, steps, errors, wallet, tasks, channel>>

SpecMemo == InitMemo /\ [][NextMemo]_vars

-----------------------------------------------------------------------------
(* The chain: a launcher is spent, and the object is spent and followed *)

\* the contents of the chain's stores
Owner1 == H(1)
Owner2 == H(2)
Metadata1 == Metadata(H(1), 1)
Metadata2 == Metadata(H(2), 1)

ChainDelegated == {<<>>, <<Admin(H(2)), Oracle(H(1), U64(1000))>>}

\* Launcher::mint_datastore: the launch memos are the recreation memos without
\* the launcher id, and none at all without delegated puzzles
MintMemos(launcher_id, owner, dps) ==
    IF dps = <<>> THEN <<>> ELSE Tail(GetRecreationMemos(launcher_id, owner, dps))

\* the memos a launch puts in the key/value list
LaunchMemos(kind, launcher_id, owner, dps) ==
    CASE kind = "mint" -> MintMemos(launcher_id, owner, dps)
      [] kind = "none" -> <<>>
      [] kind = "legacy2" -> <<B32(H(1)), B32(owner)>>
      [] kind = "id" -> <<B32(launcher_id)>>
      [] kind = "seeded" -> GetRecreationMemos(launcher_id, owner, dps)
      [] kind = "malformed" -> <<Raw(<<>>)>>

LaunchKinds == {"mint", "none", "legacy2", "id", "seeded", "malformed"}
LaunchFormats == {"current", "legacy", "short", "unknown"}

Init ==
    /\ call = NoCall
    /\ launcher \in {LauncherNew(H(1), amount) : amount \in {0, 1}}
    /\ ds = None
    /\ step = NoStep
    /\ steps = 0
    /\ errors = NoErrors
    /\ wallet = NewWallet
    /\ tasks = NewTasks
    /\ channel = NewChannel

\* the calls of with_singleton_amount made on the launcher so far
AmountCalls == IF step.op = "with_singleton_amount" THEN step.calls ELSE 0

\* Launcher::with_singleton_amount
WithSingletonAmount ==
    /\ steps = 0
    /\ step.op \in {"none", "with_singleton_amount"}
    /\ launcher.coin.amount = 0
    /\ AmountCalls < MaxAmountCalls
    /\ \E singleton_amount \in {0, 1} :
        /\ launcher' = LauncherWithSingletonAmount(launcher, singleton_amount)
        /\ step' = [op |-> "with_singleton_amount", amount |-> singleton_amount,
                    calls |-> AmountCalls + 1]
    /\ UNCHANGED <<call, ds, steps, errors, wallet, tasks, channel>>

\* the launcher coin is spent by Launcher::spend and the spend is read back
Launch ==
    /\ steps = 0
    /\ step.op \in {"none", "with_singleton_amount"}
    /\ \E format \in LaunchFormats, owner \in {Owner1}, dps \in ChainDelegated,
          kind \in LaunchKinds :
        LET launcher_id == CoinId(launcher.coin)
            inner_hash ==
                IF dps = <<>> THEN owner
                ELSE DelegationLayerHash(launcher_id, owner, MerkleRoot(dps))
            metadata == IF format = "current" THEN Metadata1 ELSE RootHashOnly(H(1))
            first == CASE format = "current" -> <<"pair", metadata>>
                       [] format = "legacy" -> <<"atom", metadata.root_hash>>
                       [] format = "short" -> <<"short">>
                       [] OTHER -> <<"other">>
            kv == KVList(first, inner_hash, LaunchMemos(kind, launcher_id, owner, dps))
            state_hash ==
                StateLayerHash(MetadataHash(metadata), DL_METADATA_UPDATER_PUZZLE_HASH,
                               inner_hash)
            spent == LauncherSpend(launcher, state_hash, kv)
            out == FromSpend(spent.cs, <<>>)
        IN  /\ step' = [op |-> "launch", format |-> format, kind |-> kind,
                        owner |-> owner, delegated_puzzles |-> dps, metadata |-> metadata,
                        singleton_inner_puzzle_hash |-> state_hash,
                        cs |-> spent.cs, coin |-> spent.coin,
                        res |-> out.res, runs |-> out.runs]
            /\ ds' = IF IsOk(out.res) THEN out.res.val ELSE None
            /\ errors' = Returned("from_spend", out.res)
    /\ steps' = 1
    /\ UNCHANGED <<call, launcher, wallet, tasks, channel>>

\* the puzzle a delegated puzzle of the store stands for
MemberPuzzle(dp) ==
    IF dp[1] = "Admin" THEN P2(dp[2][2])
    ELSE IF dp[1] = "Writer" THEN WriterLayer(P2(dp[2][2]))
    ELSE OracleLayer(dp[2], dp[3])

\* the puzzles an inner spend of the store may bring
InnerPuzzles(self) ==
    {P2(1), P2(2)}
        \cup {MemberPuzzle(self.info.delegated_puzzles[i]) :
                i \in 1..Len(self.info.delegated_puzzles)}

\* the hash of the state layer's inner puzzle in the puzzle spend builds
SpentInnerHash(self, puzzle) ==
    IF self.info.delegated_puzzles = <<>> THEN TreeHash(puzzle)
    ELSE DelegationLayerHash(self.info.launcher_id, self.info.owner_puzzle_hash,
                             MerkleRoot(self.info.delegated_puzzles))

NewDelegated == <<Writer(H(1))>>

\* the conditions an inner spend may emit
ConditionLists(self, puzzle) ==
    LET same == SpentInnerHash(self, puzzle)
        lid == self.info.launcher_id
        deleg == DelegationLayerHash(lid, Owner2, MerkleRoot(NewDelegated))
    IN  [none |-> <<>>,
         recreate |-> <<CreateCoin(same, 1, <<>>)>>,
         transfer |-> <<CreateCoin(Owner2, 1, <<>>)>>,
         hinted |-> <<CreateCoin(same, 1, <<B32(lid)>>)>>,
         manifest |-> <<CreateCoin(deleg, 1, GetRecreationMemos(lid, Owner2, NewDelegated))>>,
         manifest0 |-> <<CreateCoin(Owner2, 1, GetRecreationMemos(lid, Owner2, <<>>))>>,
         malformed |-> <<CreateCoin(same, 1, <<B32(lid), Raw(<<>>)>>)>>,
         trailing |-> <<CreateCoin(Owner2, 1, <<B32(lid), B32(Owner2), Raw(<<>>)>>)>>,
         foreign |-> <<CreateCoin(same, 1, <<B32(H(NumHashes)), B32(Owner1)>>)>>,
         even |-> <<CreateCoin(same, 2, <<>>)>>,
         update |-> <<NewMetadataCondition(Metadata2), CreateCoin(same, 1, <<>>)>>,
         write |-> <<NewMetadataCondition(Metadata2)>>,
         reupdate |-> <<NewMetadataOutput(Metadata2, H(2)), CreateCoin(same, 1, <<>>)>>,
         newroot |-> <<NewMerkleRootCondition(MerkleRoot(NewDelegated),
                            GetRecreationMemos(lid, self.info.owner_puzzle_hash,
                                               NewDelegated))>>,
         two |-> <<CreateCoin(Owner1, 1, <<>>), CreateCoin(Owner2, 3, <<>>)>>]

ConditionKinds ==
    {"none", "recreate", "transfer", "hinted", "manifest", "manifest0", "malformed", "trailing",
     "foreign", "even", "update", "write", "reupdate", "newroot", "two"}

\* the room left in the program arena for a call: enough for spend and for
\* from_spend, enough for spend alone, or none
Arenas == {"roomy", "short", "full"}

\* spend reporting a full arena as a missing child
SpendInMissingChild(arena, self, inner_spend) ==
    IF arena = "full" THEN Err("MissingChild") ELSE Spend(self, inner_spend)

\* DataStore::spend in an arena: allocating the solution fails without room
SpendIn(arena, self, inner_spend) ==
    IF arena = "full" THEN Err("ToClvm") ELSE Spend(self, inner_spend)

\* DataStore::from_spend in an arena: cs.solution.to_clvm fails without room
FromSpendIn(arena, cs, parent_delegated_puzzles) ==
    IF arena \in {"short", "full"} THEN Outcome(Err("ToClvm"), 0, None)
    ELSE FromSpend(cs, parent_delegated_puzzles)

\* the live object is spent by DataStore::spend with an inner spend, and the
\* spend is read back with the object's own delegated puzzles, in an arena with
\* room for both
SpendStep ==
    /\ steps >= 1
    /\ steps < MaxSteps
    /\ IsSome(ds)
    /\ \E puzzle \in InnerPuzzles(ds[1]),
          kind \in ConditionKinds \cup {"raise", "heavy"} :
        LET self == ds[1]
            solution == CASE kind = "raise" -> RaiseSolution
                          [] kind = "heavy" ->
                                HeavySolution(ConditionLists(self, puzzle)["recreate"])
                          [] OTHER -> P2Solution(ConditionLists(self, puzzle)[kind])
            inner_spend == InnerSpend(puzzle, solution)
            spent == SpendIn("roomy", self, inner_spend)
            out == FromSpendIn("roomy", spent.val, self.info.delegated_puzzles)
        IN  IF ~IsOk(spent)
            THEN /\ step' = [op |-> "spend_failed", before |-> self,
                             inner |-> inner_spend, kind |-> kind, err |-> spent.err]
                 /\ ds' = ds
                 /\ errors' = Returned("spend", spent)
            ELSE /\ step' = [op |-> "spend", before |-> self, inner |-> inner_spend,
                             kind |-> kind, cs |-> spent.val,
                             parent_delegated_puzzles |-> self.info.delegated_puzzles,
                             res |-> out.res, runs |-> out.runs,
                             conditions |-> out.inner]
                 /\ ds' = IF IsOk(out.res) THEN out.res.val ELSE None
                 /\ errors' = Returned("from_spend", out.res)
    /\ steps' = steps + 1
    /\ UNCHANGED <<call, launcher, wallet, tasks, channel>>

\* the same round trip of a recreating spend in an arena that runs out of room:
\* in spend, after which the object is still live, or in from_spend
ExhaustStep ==
    /\ steps >= 1
    /\ steps < MaxSteps
    /\ IsSome(ds)
    /\ \E puzzle \in InnerPuzzles(ds[1]), arena \in Arenas \ {"roomy"} :
        LET self == ds[1]
            inner_spend ==
                InnerSpend(puzzle, P2Solution(ConditionLists(self, puzzle)["recreate"]))
            spent == SpendIn(arena, self, inner_spend)
            out == FromSpendIn(arena, spent.val, self.info.delegated_puzzles)
        IN  IF ~IsOk(spent)
            THEN /\ step' = [op |-> "spend_failed", before |-> self,
                             inner |-> inner_spend, kind |-> "recreate",
                             err |-> spent.err]
                 /\ ds' = ds
                 /\ errors' = Returned("spend", spent)
            ELSE /\ step' = [op |-> "from_spend_failed", before |-> self,
                             inner |-> inner_spend, kind |-> "recreate",
                             cs |-> spent.val, res |-> out.res]
                 /\ ds' = None
                 /\ errors' = Returned("from_spend", out.res)
    /\ steps' = steps + 1
    /\ UNCHANGED <<call, launcher, wallet, tasks, channel>>

\* the spend of a coin with a delegation layer as the chain accepts it from a
\* delegate: the solution carries the merkle proof of the delegated puzzle
DelegatedCoinSpend(self, inner_spend) ==
    LET layers == IntoLayersWithDelegationLayer(self.info)
        merkle_proof == GenerateProof(self.info.delegated_puzzles,
                                      TreeHash(inner_spend.puzzle))
    IN  CoinSpend(self.coin, layers,
            SingletonSolution(self.proof, self.coin.amount,
                NftStateLayerSolution(
                    DelegationLayerSolution(merkle_proof, inner_spend.puzzle,
                                            inner_spend.solution))))

\* the conditions a delegate's puzzle emits in the spends that are followed
DelegateKinds == {"none", "transfer", "update", "write", "newroot", "two"}

\* a delegate spends the live object's coin, and from_spend follows the spend
\* with the object's own delegated puzzles
SyncStep ==
    /\ steps >= 1
    /\ steps < MaxSteps
    /\ IsSome(ds)
    /\ ds[1].info.delegated_puzzles # <<>>
    /\ \E i \in 1..Len(ds[1].info.delegated_puzzles), kind \in DelegateKinds :
        LET self == ds[1]
            puzzle == MemberPuzzle(self.info.delegated_puzzles[i])
            inner_spend == InnerSpend(puzzle, P2Solution(ConditionLists(self, puzzle)[kind]))
            cs == DelegatedCoinSpend(self, inner_spend)
            out == FromSpend(cs, self.info.delegated_puzzles)
        IN  /\ step' = [op |-> "sync", before |-> self, inner |-> inner_spend,
                        kind |-> kind, cs |-> cs,
                        parent_delegated_puzzles |-> self.info.delegated_puzzles,
                        res |-> out.res, runs |-> out.runs,
                        conditions |-> out.inner]
            /\ ds' = IF IsOk(out.res) THEN out.res.val ELSE None
            /\ errors' = Returned("from_spend", out.res)
    /\ steps' = steps + 1
    /\ UNCHANGED <<call, launcher, wallet, tasks, channel>>

\* the puzzles of spent coins that are not launcher coins: three of other
\* protocols, and one of this one
ForeignPuzzles ==
    {P2(1), SingletonLayer(H(1), P2(1)),
     NftStateLayer(Metadata1, DL_METADATA_UPDATER_PUZZLE_HASH, P2(1)),
     SingletonLayer(H(1), NftStateLayer(Metadata1, DL_METADATA_UPDATER_PUZZLE_HASH, P2(1)))}

\* from_spend on the spend of a coin that no DataStore of the chain owns
ObserveForeign ==
    /\ steps = 0
    /\ step = NoStep
    /\ \E puzzle \in ForeignPuzzles, amount \in {1, 2}, raise \in BOOLEAN :
        LET inner_solution == IF raise THEN RaiseSolution
                              ELSE P2Solution(<<CreateCoin(Owner1, 1, <<>>)>>)
            cs == CoinSpend(Coin(H(2), TreeHash(puzzle), amount), puzzle,
                            SingletonSolution(EveProof(H(1), amount), amount,
                                              NftStateLayerSolution(inner_solution)))
            out == FromSpend(cs, <<>>)
        IN  /\ step' = [op |-> "foreign", cs |-> cs, res |-> out.res, runs |-> out.runs]
            /\ errors' = Returned("from_spend", out.res)
    /\ UNCHANGED <<call, launcher, ds, steps, wallet, tasks, channel>>

Next ==
    \/ WithSingletonAmount
    \/ Launch
    \/ SpendStep
    \/ ExhaustStep
    \/ SyncStep
    \/ ObserveForeign

Spec == Init /\ [][Next]_vars

-----------------------------------------------------------------------------
(* The StandardWallet: generate_puzzle_hashes, the background task, drop.     *)
(* A task is a future polled by the runtime: it runs from one await to the    *)
(* next, and two tasks run in parallel except inside a mutex.  A step of the  *)
(* model is one critical section or one completion of an await.               *)

chainVars == <<call, launcher, ds, step, steps, errors>>

CoinStateUpdate(id) == <<"CoinStateUpdate", id>>
OtherEvent(id) == <<"Other", id>>

\* event_receiver.recv() is ready: an event is queued, or the channel has failed
RecvReady(ch) == ch.queue # <<>> \/ ch.failed # "no"

\* the background task as it reaches pc: it is suspended at an await that is not
\* ready (the response of a request never is), the callers' futures are polled by
\* their owners
Land(t, pc, ch) ==
    [tasks[t] EXCEPT !.pc = pc,
                     !.running = \/ t # Bg
                                 \/ pc \notin {"recv", "request"}
                                 \/ (pc = "recv" /\ RecvReady(ch))]

\* a task may take a step: it is in a poll, or it is woken and was not aborted
MayRun(t) == tasks[t].running \/ ~wallet.dropped

\* the background task stopping after a failed sync
BgAfterSyncStopping(res) == IF IsOk(res) THEN "recv" ELSE "stopped"

\* the background task after a sync: the error is logged, the loop goes on
BgAfterSync(res) == "recv"

\* where generate_puzzle_hashes returns to
AfterGenerate(t, res) == IF t = Bg THEN BgAfterSync(res) ELSE "done"

\* the task as generate_puzzle_hashes returns: its locals are gone, and a sync
\* that failed is logged
Return(t, res, ch) ==
    [Land(t, AfterGenerate(t, res), ch) EXCEPT
        !.next = 0, !.target = 0, !.inserted = FALSE,
        !.sync_failed = @ \/ (t = Bg /\ ~IsOk(res))]

\* let next = self.next_derivation_index(); let target = next + puzzle_hashes
GenRead(t) ==
    /\ tasks[t].pc = IF t = Bg THEN "sync" ELSE "idle"
    /\ MayRun(t)
    /\ Len(wallet.derivations) < MaxDerivations
    /\ \E puzzle_hashes \in 1..MaxBatch :
        LET next == Len(wallet.derivations)
        IN  tasks' = [tasks EXCEPT ![t] =
                        [Land(t, "derive", channel) EXCEPT
                            !.next = next, !.target = next + puzzle_hashes,
                            !.inserted = FALSE]]
    /\ UNCHANGED <<wallet, channel>>

\* self.key_store.lock().derive_keys_until(target)
GenDerive(t) ==
    /\ tasks[t].pc = "derive"
    /\ wallet' = [wallet EXCEPT !.key_store =
                    IF @ < tasks[t].target THEN tasks[t].target ELSE @]
    /\ tasks' = [tasks EXCEPT ![t] = Land(t, "insert", channel)]
    /\ UNCHANGED channel

\* self.state.lock().insert_next_derivations(derivations): the derivations of the
\* keys next..target are appended at the state's next indexes
GenInsert(t) ==
    /\ tasks[t].pc = "insert"
    /\ wallet' = [wallet EXCEPT !.derivations =
                    @ \o [i \in 1..(tasks[t].target - tasks[t].next) |->
                            tasks[t].next + i - 1]]
    /\ tasks' = [tasks EXCEPT ![t] =
                    [Land(t, "request", channel) EXCEPT !.inserted = TRUE]]
    /\ UNCHANGED channel

\* self.peer.request(RegisterForPhUpdates ..).await?: the response, or an error
GenRespond(t) ==
    /\ tasks[t].pc = "request"
    /\ MayRun(t)
    /\ \E ok \in BOOLEAN :
        tasks' = [tasks EXCEPT ![t] =
                    IF ok THEN Land(t, "apply_response", channel)
                    ELSE Return(t, Err("request"), channel)]
    /\ UNCHANGED <<wallet, channel>>

\* self.state.lock().apply_state_updates(response.coin_states); Ok(..)
GenApply(t) ==
    /\ tasks[t].pc = "apply_response"
    /\ wallet' = [wallet EXCEPT !.responses = @ + 1]
    /\ tasks' = [tasks EXCEPT ![t] = Return(t, Ok(<<>>), channel)]
    /\ UNCHANGED channel

\* wallet.sync(gap) finding enough derivations: it returns without generating
SyncSkip ==
    /\ tasks[Bg].pc = "sync"
    /\ MayRun(Bg)
    /\ tasks' = [tasks EXCEPT ![Bg] = Land(Bg, BgAfterSync(Ok(<<>>)), channel)]
    /\ UNCHANGED <<wallet, channel>>

\* while let Ok(event) = event_receiver.recv().await: an event; a CoinStateUpdate
\* is kept to be applied, any other event is passed over
BgRecv ==
    /\ tasks[Bg].pc = "recv"
    /\ MayRun(Bg)
    /\ channel.queue # <<>>
    /\ channel.failed # "lagged"
    /\ LET event == Head(channel.queue)
           ch == [channel EXCEPT !.queue = Tail(@), !.received = Append(@, event)]
       IN  /\ channel' = ch
           /\ tasks' = [tasks EXCEPT ![Bg] =
                IF event[1] = "CoinStateUpdate"
                THEN [Land(Bg, "apply", ch) EXCEPT !.event = Some(event)]
                ELSE Land(Bg, "recv", ch)]
    /\ UNCHANGED wallet

\* recv() returning an error: the channel is closed and drained, or the receiver
\* lagged; the loop ends
BgRecvErr ==
    /\ tasks[Bg].pc = "recv"
    /\ MayRun(Bg)
    /\ \/ channel.failed = "lagged"
       \/ channel.failed = "closed" /\ channel.queue = <<>>
    /\ tasks' = [tasks EXCEPT ![Bg] = Land(Bg, "stopped", channel)]
    /\ UNCHANGED <<wallet, channel>>

\* wallet.state.lock().apply_state_updates(update.items), then wallet.sync(gap)
BgApply ==
    /\ tasks[Bg].pc = "apply"
    /\ wallet' = [wallet EXCEPT !.applied = Append(@, tasks[Bg].event[1])]
    /\ tasks' = [tasks EXCEPT ![Bg] =
                    [Land(Bg, "sync", channel) EXCEPT !.event = None]]
    /\ UNCHANGED channel

\* the peer sends an event
PeerSend ==
    /\ channel.sent < MaxEvents
    /\ channel.failed = "no"
    /\ \E event \in {CoinStateUpdate(channel.sent + 1), OtherEvent(channel.sent + 1)} :
        channel' = [channel EXCEPT !.queue = Append(@, event), !.sent = @ + 1]
    /\ UNCHANGED <<wallet, tasks>>

\* the channel fails: every sender is gone, or the receiver has lagged
ChannelFail ==
    /\ channel.failed = "no"
    /\ \E how \in {"closed", "lagged"} : channel' = [channel EXCEPT !.failed = how]
    /\ UNCHANGED <<wallet, tasks>>

\* drop(wallet): join_handle.abort(); no call borrows the wallet any more
Drop ==
    /\ ~wallet.dropped
    /\ \A t \in Callers : tasks[t].pc \in {"idle", "done"}
    /\ wallet' = [wallet EXCEPT !.dropped = TRUE]
    /\ UNCHANGED <<tasks, channel>>

InitWallet ==
    /\ call = NoCall
    /\ launcher = NoLauncher
    /\ ds = None
    /\ step = NoStep
    /\ steps = 0
    /\ errors = NoErrors
    /\ wallet = NewWallet
    /\ tasks = NewTasks
    /\ channel = NewChannel

GenerateStep(t) ==
    \/ GenRead(t)
    \/ GenDerive(t)
    \/ GenInsert(t)
    \/ GenRespond(t)
    \/ GenApply(t)

\* the calls of generate_puzzle_hashes by two callers and by the initial sync
NextWallet ==
    /\ \/ \E t \in Tasks : GenerateStep(t)
       \/ SyncSkip
    /\ UNCHANGED chainVars

SpecWallet == InitWallet /\ [][NextWallet]_vars

BgStep ==
    \/ GenerateStep(Bg)
    \/ SyncSkip
    \/ BgRecv
    \/ BgRecvErr
    \/ BgApply

\* the background task, the peer's events and the drop of the wallet
NextTask ==
    /\ \/ BgStep
       \/ PeerSend
       \/ ChannelFail
       \/ Drop
    /\ UNCHANGED chainVars

SpecTask == InitWallet /\ [][NextTask]_vars

\* the runtime polls a task that can run
SpecTaskFair == SpecTask /\ WF_vars(BgStep /\ UNCHANGED chainVars)

-----------------------------------------------------------------------------
(* Claims about the chain, checked under Spec *)

\* the conditions the inner spend of the last step emits by itself
InnerRun == RunPuzzle(step.inner.puzzle, step.inner.solution)

\* the premise of the round trip: the object's coin is the coin of its info, and
\* the inner spend emits exactly one CreateCoin with an odd amount
RoundTripCase ==
    /\ step.op = "spend"
    /\ step.before.coin.puzzle_hash = InfoPuzzleHash(step.before.info)
    /\ IsOk(InnerRun)
    /\ Cardinality(OddCreateCoins(InnerRun.val)) = 1

TheCreateCoin == InnerRun.val[MinOf(OddCreateCoins(InnerRun.val))]

\* the owners and the authorization sets a manifest of the chain may name
ManifestOwners == {Owner1, Owner2}
ManifestDelegated == ChainDelegated \cup {NewDelegated}

\* the memos are a recreation manifest for the object's launcher id
IsManifest(memos, owner, dps) ==
    memos = GetRecreationMemos(step.before.info.launcher_id, owner, dps)

WellFormedManifest(memos) ==
    \E owner \in ManifestOwners, dps \in ManifestDelegated : IsManifest(memos, owner, dps)

\* the info predicted from the object and the inner spend alone
PredictedMetadata ==
    IF \E i \in 1..Len(InnerRun.val) : InnerRun.val[i][1] = "NewMetadata"
    THEN InnerRun.val[MaxOf({i \in 1..Len(InnerRun.val) :
                                InnerRun.val[i][1] = "NewMetadata"})][2]
    ELSE step.before.info.metadata

PredictedInfo(owner, dps) ==
    DataStoreInfo(step.before.info.launcher_id, PredictedMetadata, owner, dps)

ReturnsInfo(info) ==
    /\ IsOk(step.res)
    /\ IsSome(step.res.val)
    /\ step.res.val[1].info = info

\* the three cases of the chain-derived prediction
PredictedWithoutManifest ==
    LET O == step.before
    IN  IF O.info.delegated_puzzles = <<>>
        THEN ReturnsInfo(PredictedInfo(TreeHash(step.inner.puzzle), <<>>))
        ELSE IF TheCreateCoin[2] = SpentInnerHash(O, step.inner.puzzle)
        THEN ReturnsInfo(PredictedInfo(O.info.owner_puzzle_hash, O.info.delegated_puzzles))
        ELSE ReturnsInfo(PredictedInfo(TheCreateCoin[2], <<>>))

PredictedWithManifest ==
    \E owner \in ManifestOwners, dps \in ManifestDelegated :
        /\ IsManifest(TheCreateCoin[4], owner, dps)
        /\ ReturnsInfo(PredictedInfo(owner, dps))

\* C1 as stated: the round trip of spend and from_spend returns Some(O') with the
\* predicted info for every object whose coin is the coin of its info and every
\* inner spend that emits one odd CreateCoin
C1_RoundTripAlways ==
    RoundTripCase =>
        IF Len(TheCreateCoin[4]) > 1 THEN PredictedWithManifest
        ELSE PredictedWithoutManifest

\* the inner spend passes the layers under which spend puts it: there is no
\* authorization set, or its puzzle is the owner's
PassesDelegationLayer ==
    \/ step.before.info.delegated_puzzles = <<>>
    \/ TreeHash(step.inner.puzzle) = step.before.info.owner_puzzle_hash

\* the memos did not decode, or build_datastore read an owner and an
\* authorization set out of memos that are no manifest
UndecodedManifest ==
    \/ step.res \in {Err("InvalidMemo"), Err("MissingMemo")}
    \/ /\ IsOk(step.res)
       /\ IsSome(step.res.val)
       /\ step.res.val[1].info.launcher_id = step.before.info.launcher_id
       /\ step.res.val[1].info.metadata = PredictedMetadata

\* C1: the round trip of spend and from_spend returns Some(O') with the predicted
\* info when the inner spend passes the delegation layer and its CreateCoin has at
\* most one memo or a well-formed manifest for the object's launcher id; it
\* returns the error of the run when the delegation layer refuses the inner
\* spend; and for memos that are no well-formed manifest it returns InvalidMemo
\* or MissingMemo, or an object with the predicted launcher_id and metadata
C1_RoundTrip ==
    RoundTripCase =>
        IF ~PassesDelegationLayer THEN step.res = Err("Eval")
        ELSE IF Len(TheCreateCoin[4]) <= 1 THEN PredictedWithoutManifest
        ELSE IF WellFormedManifest(TheCreateCoin[4]) THEN PredictedWithManifest
        ELSE UndecodedManifest

\* an owner's spend of an object with an authorization set that leaves the
\* delegation layer
C1_Witness ==
    /\ RoundTripCase
    /\ step.before.info.delegated_puzzles # <<>>
    /\ PassesDelegationLayer
    /\ Len(TheCreateCoin[4]) <= 1
    /\ ReturnsInfo(PredictedInfo(Owner2, <<>>))
    /\ step.before.info.owner_puzzle_hash # Owner2

\* C2: every object from_spend returns along the chain carries the coin id of the
\* launcher coin as its launcher_id
C2_LauncherIdPermanent ==
    /\ IsSome(ds) => ds[1].info.launcher_id = CoinId(launcher.coin)
    /\ (step.op \in {"launch", "spend"} /\ IsOk(step.res) /\ IsSome(step.res.val))
            => step.res.val[1].info.launcher_id = CoinId(launcher.coin)

\* the second spend of the chain returned an object after the authorization set or
\* the owner changed
C2_Witness ==
    /\ step.op = "spend"
    /\ steps = 3
    /\ IsSome(ds)
    /\ ds[1].info.launcher_id = CoinId(launcher.coin)
    /\ step.before.info.owner_puzzle_hash # ds[1].info.owner_puzzle_hash
    /\ step.before.info.delegated_puzzles # ds[1].info.delegated_puzzles

\* the spend is a spend of the object's coin: the puzzle it reveals is the coin's
SpendsTheCoin == TreeHash(step.cs.puzzle_reveal) = step.cs.coin.puzzle_hash

C4_MissingChild ==
    (step.op = "spend" /\ IsSome(step.conditions)
        /\ OddCreateCoins(step.conditions[1]) = {})
        => step.res = Err("MissingChild")

\* the run emitted a CreateCoin with an even amount only
C4_Witness ==
    /\ step.op = "spend"
    /\ IsSome(step.conditions)
    /\ OddCreateCoins(step.conditions[1]) = {}
    /\ \E i \in 1..Len(step.conditions[1]) : step.conditions[1][i][1] = "CreateCoin"
    /\ step.res = Err("MissingChild")

\* the spent puzzle does not match Singleton over State
StructuralMismatch(cs) ==
    \/ cs.puzzle_reveal.kind # "singleton"
    \/ cs.puzzle_reveal.inner_puzzle.kind # "state"

\* C5: for a spent coin that is no launcher coin and whose puzzle does not match
\* the Singleton layer or the State layer under it, from_spend returns Ok(None)
\* and runs no puzzle
C5_MismatchIsNone ==
    (step.op = "foreign" /\ step.cs.coin.puzzle_hash # SINGLETON_LAUNCHER_PUZZLE_HASH
        /\ StructuralMismatch(step.cs))
        => /\ step.res = Ok(None)
           /\ step.runs = 0

\* a singleton of another protocol was observed
C5_Witness ==
    /\ step.op = "foreign"
    /\ step.cs.puzzle_reveal.kind = "singleton"
    /\ StructuralMismatch(step.cs)
    /\ step.res = Ok(None)
    /\ step.runs = 0

\* the object of a launch: the coin Launcher::spend returned, the launcher coin's
\* id, and the Eve proof of the launcher coin
LaunchedObject(o) ==
    /\ o.coin = step.coin
    /\ o.coin = Coin(CoinId(launcher.coin), step.cs.solution.singleton_puzzle_hash,
                     step.cs.solution.amount)
    /\ o.info.launcher_id = CoinId(launcher.coin)
    /\ o.proof = EveProof(launcher.coin.parent_coin_info, launcher.coin.amount)

\* C6 as stated: from_spend on a launcher spend with a current-format key/value
\* list returns Some of the launched object
C6_LaunchRoundTripAlways ==
    (step.op = "launch" /\ step.format = "current")
        => /\ IsOk(step.res)
           /\ IsSome(step.res.val)
           /\ LaunchedObject(step.res.val[1])

\* the memos of the key/value list are what from_spend decodes after the launcher
\* id it puts before them: nothing, or a 32-byte owner hash and the memos of
\* delegated puzzles
LaunchMemosDecode ==
    LET memos == step.cs.solution.key_value_list.memos
    IN  \/ memos = <<>>
        \/ /\ IsB32(memos[1])
           /\ \E dps \in ChainDelegated : Tail(memos) = DelegatedMemos(dps)

\* C6: from_spend on a launcher spend with a current-format key/value list
\* returns Some of the launched object or the error InvalidMemo or MissingMemo,
\* and it returns the object whenever the memos of the list are nothing or an
\* owner hash and the memos of delegated puzzles
C6_LaunchRoundTrip ==
    (step.op = "launch" /\ step.format = "current")
        => /\ \/ /\ IsOk(step.res)
                 /\ IsSome(step.res.val)
                 /\ LaunchedObject(step.res.val[1])
              \/ step.res \in {Err("InvalidMemo"), Err("MissingMemo")}
           /\ LaunchMemosDecode => IsOk(step.res)

\* a launch with a singleton amount other than the launcher coin's, and memos
C6_Witness ==
    /\ step.op = "launch"
    /\ step.format = "current"
    /\ step.kind = "mint"
    /\ step.delegated_puzzles # <<>>
    /\ launcher.singleton_amount # launcher.coin.amount
    /\ IsOk(step.res)
    /\ LaunchedObject(step.res.val[1])
    /\ step.res.val[1].info.delegated_puzzles = step.delegated_puzzles

\* the launch sends zero hints: after the launcher id the driver puts first, the
\* memo list is exhausted where the owner hash is expected
OwnerMemoExhausted ==
    /\ step.op = "launch"
    /\ step.format \in {"current", "legacy"}
    /\ step.cs.solution.key_value_list.memos = <<>>

\* C7: a launch with zero hints, in the current and in the legacy format alike,
\* returns an object whose owner is the key/value list's
\* state_layer_inner_puzzle_hash and whose delegated_puzzles is empty: the
\* fallback is used where the memo list is exhausted
C7_FallbackOwner ==
    OwnerMemoExhausted
        => /\ IsOk(step.res)
           /\ IsSome(step.res.val)
           /\ step.res.val[1].info.owner_puzzle_hash
                = step.cs.solution.key_value_list.state_layer_inner_puzzle_hash
           /\ step.res.val[1].info.delegated_puzzles = <<>>

\* a legacy launch with zero hints fell back to the hash of a delegation layer
C7_Witness ==
    /\ OwnerMemoExhausted
    /\ step.format = "legacy"
    /\ step.cs.solution.key_value_list.memos = <<>>
    /\ step.delegated_puzzles # <<>>
    /\ IsOk(step.res)
    /\ step.res.val[1].info.owner_puzzle_hash
        = step.cs.solution.key_value_list.state_layer_inner_puzzle_hash
    /\ step.res.val[1].info.owner_puzzle_hash # step.owner

\* the shape of the first element of the launched key/value list
LaunchedFirst == step.cs.solution.key_value_list.first

\* the launch ended without a parse failure of the launcher solution
NoParseFailure == step.res.err \in {"none", "InvalidMemo", "MissingMemo"}

\* C11: in the launcher branch the legacy format is tried exactly when the current
\* format fails with ExpectedPair, and the metadata is then root_hash_only of the
\* root hash; another failure of the current parse is returned without trying the
\* legacy format, and a failure of the legacy parse is returned
C11_LegacyFallback ==
    step.op = "launch" =>
        CASE LaunchedFirst[1] = "pair" ->
                /\ NoParseFailure
                /\ IsOk(step.res) => step.res.val[1].info.metadata = LaunchedFirst[2]
          [] LaunchedFirst[1] = "atom" ->
                /\ NoParseFailure
                /\ IsOk(step.res)
                    => step.res.val[1].info.metadata = RootHashOnly(LaunchedFirst[2])
          [] LaunchedFirst[1] = "short" -> step.res = Err("FromClvm(WrongAtomLength)")
          [] OTHER -> step.res = Err("FromClvm(Custom)")

\* a launch in the legacy format returned an object with root_hash_only metadata
C11_Witness ==
    /\ step.op = "launch"
    /\ LaunchedFirst[1] = "atom"
    /\ IsOk(step.res)
    /\ IsSome(step.res.val)
    /\ step.res.val[1].info.metadata = RootHashOnly(H(1))
    /\ step.res.val[1].info.metadata # Metadata1

\* the object build_datastore returns for the launch when the memo list it is
\* handed is the launcher id followed by the memos of the key/value list
SeededLaunch ==
    LET kv == step.cs.solution.key_value_list
        launcher_id == CoinId(launcher.coin)
    IN  OkSome(BuildDatastore(
            step.coin, launcher_id,
            EveProof(launcher.coin.parent_coin_info, launcher.coin.amount),
            IF kv.first[1] = "pair" THEN kv.first[2] ELSE RootHashOnly(kv.first[2]),
            kv.state_layer_inner_puzzle_hash,
            <<B32(launcher_id)>> \o kv.memos))

\* the launch sends no launcher id among its memos
LaunchMemosWithoutId ==
    LET memos == step.cs.solution.key_value_list.memos
    IN  memos = <<>> \/ memos[1] # B32(CoinId(launcher.coin))

\* C12: in the launcher branch, for the current and the legacy format alike, the
\* memo list handed to the decoding is the launcher id followed by the memos of
\* the key/value list
C12_LauncherIdSeeded ==
    (step.op = "launch" /\ step.format \in {"current", "legacy"}
        /\ LaunchMemosWithoutId)
        => step.res = SeededLaunch

\* the solution spend put under the state layer
StateInnerSolution == step.cs.solution.inner_solution.inner_solution

\* the puzzle spend put under the state layer
StateInnerPuzzle == step.cs.puzzle_reveal.inner_puzzle.inner_puzzle

\* C13: with an authorization set, the delegation layer's solution built by spend
\* carries the merkle proof generated for the tree hash of the inner spend's
\* puzzle, and the inner spend's puzzle and solution; without one, the state
\* layer's inner puzzle and solution are the inner spend's
C13_ProofForInnerPuzzle ==
    step.op = "spend" =>
        IF step.before.info.delegated_puzzles # <<>>
        THEN /\ StateInnerPuzzle.kind = "deleg"
             /\ StateInnerSolution
                  = DelegationLayerSolution(
                        GenerateProof(step.before.info.delegated_puzzles,
                                      TreeHash(step.inner.puzzle)),
                        step.inner.puzzle, step.inner.solution)
        ELSE /\ StateInnerPuzzle = step.inner.puzzle
             /\ StateInnerSolution = step.inner.solution

\* the inner spend's puzzle is no leaf of the object's merkle tree
NotAMember ==
    /\ step.before.info.delegated_puzzles # <<>>
    /\ GenerateProof(step.before.info.delegated_puzzles, TreeHash(step.inner.puzzle)) = None

\* C14 as stated: spend on an object with an authorization set returns an error
\* and no CoinSpend when the inner spend's puzzle is not a member of the set
C14_NonMemberRejected ==
    (step.op \in {"spend", "spend_failed"} /\ NotAMember)
        => step.op = "spend_failed"

\* C14: spend on an object with an authorization set returns a CoinSpend when the
\* inner spend's puzzle is not a member of the set, unless the serialization
\* fails; the delegation layer's solution then carries no merkle proof, and the
\* inner spend's puzzle and solution
C14_NonMemberSpends ==
    (step.op \in {"spend", "spend_failed"} /\ NotAMember)
        => \/ /\ step.op = "spend"
              /\ step.cs.coin = step.before.coin
              /\ StateInnerSolution
                   = DelegationLayerSolution(None, step.inner.puzzle, step.inner.solution)
           \/ /\ step.op = "spend_failed"
              /\ step.err = "ToClvm"

\* the owner of an object with an authorization set spent it, and the spend was
\* followed
C14_Witness ==
    /\ step.op = "spend"
    /\ NotAMember
    /\ TreeHash(step.inner.puzzle) = step.before.info.owner_puzzle_hash
    /\ StateInnerSolution.merkle_proof = None
    /\ IsOk(step.res)

\* from_spend ran the state layer's inner puzzle of a spend of the chain and
\* found an odd CreateCoin
FoundChild ==
    /\ step.op \in {"spend", "sync"}
    /\ IsSome(step.conditions)
    /\ LastOddCreateCoin(step.conditions[1]) # None

\* the odd CreateCoin from_spend keeps
KeptCreateCoin == LastOddCreateCoin(step.conditions[1])[1]

SpentSingletonLayer == step.cs.puzzle_reveal
SpentStateLayer == SpentSingletonLayer.inner_puzzle

\* the successor coin for a CreateCoin and a metadata value
SuccessorCoinOf(create_coin, metadata) ==
    Coin(CoinId(step.cs.coin),
         SingletonHash(SpentSingletonLayer.launcher_id,
             StateLayerHash(MetadataHash(metadata),
                            SpentStateLayer.metadata_updater_puzzle_hash,
                            create_coin[2])),
         create_coin[3])

SuccessorCoin ==
    SuccessorCoinOf(KeptCreateCoin, NextMetadata(SpentStateLayer.metadata, step.conditions[1]))

\* the successor decoded from the memos of the kept CreateCoin, for a fallback
\* owner
ManifestDecode(fallback_owner) ==
    OkSome(BuildDatastore(SuccessorCoin, SpentSingletonLayer.launcher_id,
                          SingletonLineageProof(SpentSingletonLayer, step.cs.coin),
                          NextMetadata(SpentStateLayer.metadata, step.conditions[1]),
                          fallback_owner, KeptCreateCoin[4]))

\* the owners and authorization sets the structural check can return
StructuralOutcome ==
    \/ step.res = Err("Eval")
    \/ /\ IsOk(step.res)
       /\ IsSome(step.res.val)
       /\ LET info == step.res.val[1].info
              inner_puzzle == SpentStateLayer.inner_puzzle
          IN  IF inner_puzzle.kind = "deleg"
              THEN \/ /\ info.owner_puzzle_hash = inner_puzzle.owner_puzzle_hash
                      /\ info.delegated_puzzles = step.parent_delegated_puzzles
                   \/ /\ info.owner_puzzle_hash \in
                            {c[2] : c \in {step.cs.solution.inner_solution.inner_solution
                                              .puzzle_solution.conditions[i] :
                                           i \in 1..Len(step.cs.solution.inner_solution
                                              .inner_solution.puzzle_solution.conditions)}}
                      /\ info.delegated_puzzles = <<>>
              ELSE /\ info.owner_puzzle_hash = TreeHash(inner_puzzle)
                   /\ info.delegated_puzzles = <<>>

\* the fallback owners and parent lists over which a decoded manifest is compared
OtherOwners == Hashes
OtherParents == ManifestDelegated

\* the result is the decoding of the memos, whatever the fallback owner and the
\* caller's list
DecodedFromMemosAlone ==
    /\ \A h \in OtherOwners : step.res = ManifestDecode(h)
    /\ \A dps \in OtherParents : FromSpend(step.cs, dps).res = step.res

\* C15 as stated: the singleton branch decodes the successor's memos as a manifest
\* exactly when the odd CreateCoin carries more than one memo besides the
\* launcher-id memo, and with fewer it falls through to the structural check
C15_ManifestBeyondLauncherId ==
    FoundChild =>
        IF Len(KeptCreateCoin[4]) - 1 > 1 THEN DecodedFromMemosAlone
        ELSE StructuralOutcome

\* C15: the singleton branch decodes the successor's memos as a manifest exactly
\* when the odd CreateCoin carries more than one memo, the launcher-id memo
\* counted; with one memo or none it falls through to the structural check; the
\* decoded owner and authorization set come from the memos alone
C15_ManifestThreshold ==
    FoundChild =>
        IF Len(KeptCreateCoin[4]) > 1 THEN DecodedFromMemosAlone
        ELSE StructuralOutcome

\* a successor with the launcher-id memo and one more was decoded from its memos,
\* to an owner that the structural check would not have returned
C15_Witness ==
    /\ FoundChild
    /\ Len(KeptCreateCoin[4]) = 2
    /\ DecodedFromMemosAlone
    /\ ~StructuralOutcome
    /\ IsOk(step.res)

\* two calls of from_spend on the spend of the step that differ only in
\* parent_delegated_puzzles return different results
ParentListMatters ==
    \E x, y \in OtherParents : FromSpend(step.cs, x).res # FromSpend(step.cs, y).res

\* from_spend reached the structural check and found a delegation layer whose
\* delegated puzzle ran
DelegatedRun ==
    LET solution == step.cs.solution.inner_solution.inner_solution
    IN  RunPuzzle(solution.puzzle_reveal, solution.puzzle_solution)

ReachedDelegatedRun ==
    /\ FoundChild
    /\ ~CarriesManifest(KeptCreateCoin[4])
    /\ SpentStateLayer.inner_puzzle.kind = "deleg"
    /\ IsOk(DelegatedRun)

\* the delegated puzzle emitted no odd CreateCoin
NoDelegatedChild ==
    /\ ReachedDelegatedRun
    /\ FirstOddCreateCoin(DelegatedRun.val) = None

\* the delegated puzzle recreated the delegation layer under its own hash
RecreatedIdentical ==
    /\ ReachedDelegatedRun
    /\ FirstOddCreateCoin(DelegatedRun.val) # None
    /\ FirstOddCreateCoin(DelegatedRun.val)[1][2] = TreeHash(SpentStateLayer.inner_puzzle)

\* C16 as stated: parent_delegated_puzzles influences the result of from_spend in
\* one case only, a delegation layer whose delegated puzzle emits no odd CreateCoin
C16_OnlyWithoutDelegatedChild ==
    step.op \in {"launch", "spend", "sync", "foreign"} =>
        (ParentListMatters => NoDelegatedChild)

\* C16: parent_delegated_puzzles influences the result of from_spend in two cases,
\* both with a delegation layer and at most one memo on the kept CreateCoin: the
\* delegated puzzle emits no odd CreateCoin, or its first odd CreateCoin recreates
\* the delegation layer under the same hash; in them the result's authorization
\* set is the caller's list, and in every other case two calls that differ only in
\* parent_delegated_puzzles return the same result
C16_ParentListCases ==
    step.op \in {"launch", "spend", "sync", "foreign"} =>
        /\ ParentListMatters <=> (NoDelegatedChild \/ RecreatedIdentical)
        /\ (NoDelegatedChild \/ RecreatedIdentical) =>
                \A x \in OtherParents :
                    ReturnsInfo(PredictedInfo(SpentStateLayer.inner_puzzle.owner_puzzle_hash,
                                              step.parent_delegated_puzzles))
                    /\ FromSpend(step.cs, x).res.val[1].info.delegated_puzzles = x

\* a delegate's spend without an odd CreateCoin was followed, and the result took
\* its authorization set from the caller
C16_Witness ==
    /\ step.op = "sync"
    /\ NoDelegatedChild
    /\ ParentListMatters
    /\ IsOk(step.res)
    /\ step.res.val[1].info.delegated_puzzles = step.before.info.delegated_puzzles

\* the spend is valid under a delegation layer, and its delegated puzzle emits
\* one odd CreateCoin, without memos
DelegatedCreateCoinCase ==
    /\ step.op \in {"spend", "sync"}
    /\ SpentStateLayer.inner_puzzle.kind = "deleg"
    /\ IsOk(RunPuzzle(SpentStateLayer.inner_puzzle,
                      step.cs.solution.inner_solution.inner_solution))
    /\ IsOk(DelegatedRun)
    /\ Cardinality(OddCreateCoins(DelegatedRun.val)) = 1
    /\ FirstOddCreateCoin(DelegatedRun.val)[1][4] = <<>>

\* C17: when the delegated puzzle of a spend under a delegation layer emits
\* CreateCoin{X, odd amount, no memos}: for X other than the hash of the spent
\* delegation layer from_spend returns owner_puzzle_hash = X and no delegated
\* puzzles, whatever parent_delegated_puzzles is; for X equal to that hash it
\* returns the curried owner and the caller's list
C17_DelegationExit ==
    DelegatedCreateCoinCase =>
        \A x \in OtherParents :
            LET r == FromSpend(step.cs, x).res
                X == FirstOddCreateCoin(DelegatedRun.val)[1][2]
                layer == SpentStateLayer.inner_puzzle
            IN  /\ IsOk(r)
                /\ IsSome(r.val)
                /\ IF X # TreeHash(layer)
                   THEN /\ r.val[1].info.owner_puzzle_hash = X
                        /\ r.val[1].info.delegated_puzzles = <<>>
                   ELSE /\ r.val[1].info.owner_puzzle_hash = layer.owner_puzzle_hash
                        /\ r.val[1].info.delegated_puzzles = x

\* the owner left the delegation layer, and the successor has the new owner and
\* no delegated puzzles
C17_Witness ==
    /\ DelegatedCreateCoinCase
    /\ step.before.info.delegated_puzzles # <<>>
    /\ FirstOddCreateCoin(DelegatedRun.val)[1][2] = Owner2
    /\ IsOk(step.res)
    /\ step.res.val[1].info.owner_puzzle_hash = Owner2
    /\ step.res.val[1].info.owner_puzzle_hash # step.before.info.owner_puzzle_hash
    /\ step.res.val[1].info.delegated_puzzles = <<>>

\* from_spend returned an object for a spend of the chain
ReturnedSuccessor ==
    /\ FoundChild
    /\ IsOk(step.res)
    /\ IsSome(step.res.val)

\* C18: in the singleton branch, when the inner run emits no metadata-update
\* condition the returned object's metadata is the metadata curried into the spent
\* coin's state layer, and when it emits one the metadata is the one the metadata
\* updater derives from that condition
C18_MetadataCarriedOrUpdated ==
    ReturnedSuccessor =>
        LET conds == step.conditions[1]
            updates == NewMetadataConditions(conds)
            metadata == step.res.val[1].info.metadata
        IN  /\ updates = {} => metadata = SpentStateLayer.metadata
            /\ Cardinality(updates) = 1 => metadata = conds[MinOf(updates)][2]

\* a spend updating the metadata was followed to a successor with the new
\* metadata, and the spent coin had another
C18_Witness ==
    /\ ReturnedSuccessor
    /\ Cardinality(NewMetadataConditions(step.conditions[1])) = 1
    /\ step.res.val[1].info.metadata = Metadata2
    /\ SpentStateLayer.metadata # Metadata2

\* the coin the chain creates for a spend of a singleton with a state layer: the
\* revealed puzzle is the coin's, the state layer wraps the one odd CreateCoin of
\* its inner puzzle under the metadata and the updater hash that the metadata
\* updater returns (the curried ones without an update), and the singleton layer
\* wraps that under the launcher id
CreatedOnChain(cs) ==
    LET singleton_layer == cs.puzzle_reveal
        state_layer == singleton_layer.inner_puzzle
        run == RunPuzzle(state_layer.inner_puzzle, cs.solution.inner_solution.inner_solution)
    IN  IF TreeHash(cs.puzzle_reveal) # cs.coin.puzzle_hash \/ ~IsOk(run) THEN None
        ELSE
        LET updates == NewMetadataConditions(run.val)
            odd == OddCreateCoins(run.val)
        IN  IF Cardinality(updates) > 1 \/ Cardinality(odd) # 1 THEN None
            ELSE
            LET create_coin == run.val[MinOf(odd)]
                metadata == IF updates = {} THEN state_layer.metadata
                            ELSE run.val[MinOf(updates)][2]
                updater == IF updates = {} THEN state_layer.metadata_updater_puzzle_hash
                           ELSE run.val[MinOf(updates)][3]
            IN  Some(Coin(CoinId(cs.coin),
                          SingletonHash(singleton_layer.launcher_id,
                              StateLayerHash(MetadataHash(metadata), updater,
                                             create_coin[2])),
                          create_coin[3]))

\* C19: in every Some result of the singleton branch the successor coin is
\* recomputed: its puzzle hash is the singleton curry of the launcher id and the
\* state layer over the tree hash of the new metadata, the metadata updater hash
\* and the puzzle hash of the odd CreateCoin, and its amount is the CreateCoin's;
\* it is the coin the spent puzzle creates on chain for the same spend, metadata
\* updates included
C19_SuccessorCoinOnChain ==
    ReturnedSuccessor =>
        /\ step.res.val[1].coin = SuccessorCoin
        /\ CreatedOnChain(step.cs) # None
                => step.res.val[1].coin = CreatedOnChain(step.cs)[1]

FirstRun ==
    RunProgram(SpentStateLayer.inner_puzzle,
               step.cs.solution.inner_solution.inner_solution, MAX_COST)

\* from_spend reached the run of the state layer's inner puzzle
InSingletonBranch ==
    /\ step.op \in {"spend", "sync", "foreign"}
    /\ step.cs.coin.puzzle_hash # SINGLETON_LAUNCHER_PUZZLE_HASH
    /\ step.cs.puzzle_reveal.kind = "singleton"
    /\ SpentSingletonLayer.inner_puzzle.kind = "state"

\* C21: every puzzle run of from_spend is under the same fixed cost ceiling; a
\* run that fails, by its cost or by an error of the program, is returned as the
\* error of from_spend, with no further run and no second run under a larger
\* budget; one call runs at most two puzzles, the state layer's inner puzzle and
\* then the delegated puzzle
C21_FixedCostNoRetry ==
    step.op \in {"launch", "spend", "sync", "foreign"} =>
        /\ step.runs \in 0..2
        /\ step.runs >= 1 <=> InSingletonBranch
        /\ InSingletonBranch =>
            /\ ~IsOk(FirstRun) => step.res = Err("Eval") /\ step.runs = 1
            /\ Cost(SpentStateLayer.inner_puzzle,
                    step.cs.solution.inner_solution.inner_solution) > MAX_COST
                    => ~IsOk(FirstRun)
            /\ step.runs = 2 =>
                /\ IsOk(FirstRun)
                /\ SpentStateLayer.inner_puzzle.kind = "deleg"
                /\ IsOk(step.res) <=> IsOk(DelegatedRun)

\* a spend whose inner puzzle would succeed under a larger budget was read back:
\* from_spend ran one puzzle and returned the failure
C21_Witness ==
    /\ step.op = "spend"
    /\ step.kind = "heavy"
    /\ IsOk(Evaluate(step.inner.puzzle, step.inner.solution))
    /\ IsOk(RunProgram(step.inner.puzzle, step.inner.solution, 2 * MAX_COST))
    /\ step.res = Err("Eval")
    /\ step.runs = 1

\* C23: the singleton coin returned by Launcher::spend has the launcher coin's id
\* as parent, the singleton curry of the launcher coin's id and the singleton
\* inner puzzle hash as puzzle hash, and the launcher coin's amount as amount,
\* unless with_singleton_amount was called, and then the amount given last;
\* with_singleton_amount never changes the launcher coin
C23_LauncherSingletonCoin ==
    [][/\ step'.op = "with_singleton_amount" =>
            /\ launcher'.coin = launcher.coin
            /\ launcher'.singleton_amount = step'.amount
       /\ (step.op # "launch" /\ step'.op = "launch") =>
            /\ launcher' = launcher
            /\ step'.cs.coin = launcher.coin
            /\ step'.coin =
                Coin(CoinId(launcher.coin),
                     SingletonHash(CoinId(launcher.coin),
                                   step'.singleton_inner_puzzle_hash),
                     IF step.op = "with_singleton_amount" THEN step.amount
                     ELSE launcher.coin.amount)]_vars

\* a launcher coin of amount 0 was spent after with_singleton_amount, and the
\* singleton coin has amount 1 and the launcher coin as parent
C23_Witness ==
    /\ step.op = "launch"
    /\ launcher.coin.amount = 0
    /\ launcher.coin = LauncherNew(H(1), 0).coin
    /\ step.coin.amount = 1
    /\ step.coin.parent_coin_info = CoinId(launcher.coin)

-----------------------------------------------------------------------------
(* Claims about the memo codec, checked under SpecMemo *)

\* C8: build_datastore fails with InvalidMemo, and returns no object, for every
\* memo list whose first memo is not the known launcher_id.
C8_ForeignLauncherIdRejected ==
    (call.op = "build" /\ call.memos # <<>> /\ call.memos[1] # B32(call.launcher_id))
        => call.out = Err("InvalidMemo")

\* a manifest, well formed but for naming another launcher id, is rejected
C8_Witness ==
    /\ call.op = "build"
    /\ Len(call.memos) = 3
    /\ IsB32(call.memos[1]) /\ call.memos[1] # B32(call.launcher_id)
    /\ IsB32(call.memos[2])
    /\ call.out = Err("InvalidMemo")

\* C9: decoding with build_datastore the memos get_recreation_memos(launcher_id,
\* owner, delegated_puzzles) produces yields exactly that owner_puzzle_hash and that
\* delegated_puzzles list, in order; the legacy memos [launcher_id, owner] decode
\* to that owner and an empty list.
C9_MemoRoundTrip ==
    /\ call.op = "recreate" =>
        /\ IsOk(call.out)
        /\ call.out.val.info.owner_puzzle_hash = call.owner
        /\ call.out.val.info.delegated_puzzles = call.delegated_puzzles
    /\ call.op = "legacy" =>
        /\ IsOk(call.out)
        /\ call.out.val.info.owner_puzzle_hash = call.owner
        /\ call.out.val.info.delegated_puzzles = <<>>

\* a writer and an oracle of fee 128 come back in order, under an owner hash that
\* is also the metadata's root hash
C9_Witness ==
    /\ call.op = "recreate"
    /\ call.delegated_puzzles = <<Writer(H(2)), Oracle(H(1), U64(128))>>
    /\ call.owner = call.metadata.root_hash
    /\ IsOk(call.out)
    /\ call.out.val.info.delegated_puzzles = call.delegated_puzzles

\* the fee memo of the one oracle of a fee call
FeeMemo == call.memos[5][2]

\* C10: the fee memo is the minimal big-endian signed encoding of the fee: empty
\* for 0, a leading 0x00 only before a byte with its high bit set (128 is
\* 0x00 0x80), no shorter byte string reads back as the fee, and the bytes read
\* back as a signed big-endian integer equal the fee.
C10_FeeMemoMinimalSigned ==
    call.op = "fee" =>
        /\ call.memos[5][1] = "raw"
        /\ (call.fee = U64(0)) <=> (FeeMemo = <<>>)
        /\ (FeeMemo # <<>> /\ FeeMemo[1] = 0) => (Len(FeeMemo) > 1 /\ FeeMemo[2] >= 128)
        /\ call.fee = U64(128) => FeeMemo = <<0, 128>>
        /\ FeeFromBytes(FeeMemo) = Some(call.fee)
        /\ FeeMemo # <<>> => FeeFromBytes(Tail(FeeMemo)) # Some(call.fee)

\* fee 128 is written with its leading zero byte
C10_Witness ==
    /\ call.op = "fee"
    /\ call.fee = U64(128)
    /\ FeeMemo = <<0, 128>>

\* C22: owner_create_coin_condition returns a CreateCoin of amount 1 whose puzzle
\* hash is the bare new_inner_puzzle_hash when new_delegated_puzzles is empty and
\* the delegation layer's curried hash over the launcher id, the new inner puzzle
\* hash and the merkle root of new_delegated_puzzles otherwise; its memos are the
\* recreation manifest when hint_delegated_puzzles is true and [launcher_id]
\* otherwise
C22_OwnerCreateCoin ==
    call.op = "owner_create_coin" =>
        /\ call.out[1] = "CreateCoin"
        /\ call.out[3] = 1
        /\ call.out[2] =
                IF call.delegated_puzzles = <<>> THEN call.owner
                ELSE DelegationLayerHash(call.launcher_id, call.owner,
                                         MerkleRoot(call.delegated_puzzles))
        /\ call.out[4] =
                IF call.hint
                THEN GetRecreationMemos(call.launcher_id, call.owner,
                                        call.delegated_puzzles)
                ELSE <<B32(call.launcher_id)>>

\* spend j of the bundle creates the coin: its puzzle emits a CreateCoin with the
\* coin's puzzle hash and amount, and the coin's parent is the spent coin's id
CreatedBy(coin, coin_spend) ==
    LET run == RunPuzzle(coin_spend.puzzle_reveal, coin_spend.solution)
    IN  \E i \in 1..Len(run.val) :
            /\ run.val[i][1] = "CreateCoin"
            /\ coin.parent_coin_info = CoinId(coin_spend.coin)
            /\ coin.puzzle_hash = run.val[i][2]
            /\ coin.amount = run.val[i][3]

\* the positions of the bundle whose coin no spend of the bundle creates
Lasting(coin_spends) ==
    {i \in 1..Len(coin_spends) :
        \A j \in 1..Len(coin_spends) : ~CreatedBy(coin_spends[i].coin, coin_spends[j])}

\* C24: non_ephemeral_coins returns exactly the spent coins of the bundle that no
\* spend of the bundle creates, in the order of the spends in the input, whatever
\* the order of a creating spend and the spend of the coin it creates
C24_NonEphemeralCoins ==
    (call.op = "non_ephemeral" /\ IsOk(call.out)) =>
        LET coin_spends == call.coin_spends
            out == call.out.val
        IN  \E f \in [1..Len(out) -> 1..Len(coin_spends)] :
                /\ \A k \in 1..Len(out) : out[k] = coin_spends[f[k]].coin
                /\ \A k \in 1..Len(out) : \A l \in 1..Len(out) : k < l => f[k] < f[l]
                /\ {f[k] : k \in 1..Len(out)} = Lasting(coin_spends)

\* a bundle spends a created coin before the spend that creates it, and only the
\* creating coin is returned
C24_Witness ==
    /\ call.op = "non_ephemeral"
    /\ IsOk(call.out)
    /\ Len(call.coin_spends) >= 2
    /\ CreatedBy(call.coin_spends[1].coin, call.coin_spends[2])
    /\ call.out.val = <<call.coin_spends[2].coin>>

\* the sum of the deltas of the items before item i
PrevSubtotal(cat_spends, i) ==
    LET sub[k \in 0..(i - 1)] ==
            IF k = 0 THEN 0
            ELSE sub[k - 1]
                    + CatDelta(cat_spends[k],
                               Evaluate(cat_spends[k].inner_spend.puzzle,
                                        cat_spends[k].inner_spend.solution).val)
    IN  sub[i - 1]

\* C25: when finish succeeds it emits one CoinSpend per item, in the order added;
\* item i names the coin id of item i-1 (cyclically) as prev_coin_id, carries the
\* parent coin info, the inner puzzle hash and the amount of item i+1 (cyclically)
\* in next_coin_proof, and the sum of the deltas of the items before it as
\* prev_subtotal
C25_CatRing ==
    (call.op = "cat_finish" /\ IsOk(call.out.res)) =>
        LET items == call.cat_spends
            n == Len(items)
            spends == call.out.spends
        IN  /\ Len(spends) = n
            /\ \A i \in 1..n :
                LET prev == items[IF i = 1 THEN n ELSE i - 1]
                    next == items[IF i = n THEN 1 ELSE i + 1]
                    sol == spends[i].solution
                IN  /\ spends[i].coin = items[i].coin
                    /\ sol.prev_coin_id = CoinId(prev.coin)
                    /\ sol.next_coin_proof =
                            CoinProof(next.coin.parent_coin_info,
                                      TreeHash(next.inner_spend.puzzle),
                                      next.coin.amount)
                    /\ sol.prev_subtotal = PrevSubtotal(items, i)

\* C26: from_spend returns an object from the singleton branch only when the run
\* of the state layer's inner puzzle emits exactly one CreateCoin of odd amount;
\* the returned coin is derived from that condition, and where the delegated
\* puzzle is run as well and emits an odd CreateCoin, the one found there is the
\* one kept from the state-layer run
C26_ExactlyOneOddCreateCoin ==
    (InSingletonBranch /\ IsOk(step.res) /\ IsSome(step.res.val)) =>
        /\ IsOk(FirstRun)
        /\ Cardinality(OddCreateCoins(FirstRun.val)) = 1
        /\ step.res.val[1].coin
            = SuccessorCoinOf(FirstOddCreateCoin(FirstRun.val)[1],
                              NextMetadata(SpentStateLayer.metadata, FirstRun.val))
        /\ (step.runs = 2 /\ FirstOddCreateCoin(DelegatedRun.val) # None) =>
                FirstOddCreateCoin(DelegatedRun.val) = LastOddCreateCoin(FirstRun.val)

\* C27: an object that from_spend returns from the singleton branch without
\* reading a memo manifest has a coin whose puzzle hash is the puzzle hash
\* derived from its info
C27_CoinMatchesInfo ==
    (InSingletonBranch /\ IsOk(step.res) /\ IsSome(step.res.val)
        /\ ~CarriesManifest(LastOddCreateCoin(FirstRun.val)[1][4]))
        => step.res.val[1].coin.puzzle_hash = InfoPuzzleHash(step.res.val[1].info)

\* C28: the derivations that concurrent calls of generate_puzzle_hashes insert are
\* those of disjoint, contiguous index ranges: the state holds the derivation of
\* index i at index i, none twice and none skipped, and the ranges of two tasks
\* that have inserted do not overlap
C28_DisjointContiguous ==
    /\ \A i \in 1..Len(wallet.derivations) : wallet.derivations[i] = i - 1
    /\ \A t, u \in Tasks :
        (t # u /\ tasks[t].inserted /\ tasks[u].inserted) =>
            \/ tasks[t].target <= tasks[u].next
            \/ tasks[u].target <= tasks[t].next

\* the CoinStateUpdate events among the events received
EventUpdates(events) == SelectSeq(events, LAMBDA event : event[1] = "CoinStateUpdate")

\* the updates applied and the one about to be are the CoinStateUpdate events
\* received, in the order received; a task whose loop has ended saw recv fail
AppliedInOrder ==
    /\ wallet.applied \o tasks[Bg].event = EventUpdates(channel.received)
    /\ tasks[Bg].pc = "stopped" => channel.failed # "no"

\* an applied update is followed by a sync, and a sync that fails leaves the task
\* at recv
SyncFollows ==
    [][/\ wallet'.applied # wallet.applied => tasks'[Bg].pc = "sync"
       /\ (tasks'[Bg].sync_failed /\ tasks'[Bg] # tasks[Bg] /\ tasks[Bg].pc = "request")
            => tasks'[Bg].pc \in {"recv", "apply_response"}]_vars

\* an event that recv has returned is applied
ReceivedIsApplied ==
    \A id \in 1..MaxEvents :
        (tasks[Bg].event = Some(CoinStateUpdate(id)))
            ~> (\E i \in 1..Len(wallet.applied) : wallet.applied[i] = CoinStateUpdate(id))

\* C29 as stated: the updates are applied in order, each followed by a sync, a
\* failed sync does not end the loop, the loop ends only on a failed recv, and
\* once the wallet is dropped no update is applied
C29_TaskAppliesUntilDrop ==
    /\ []AppliedInOrder
    /\ SyncFollows
    /\ ReceivedIsApplied
    /\ [][wallet.dropped => wallet'.applied = wallet.applied]_vars

\* C29: as above, but once the wallet is dropped no update is applied by a task
\* that is suspended at an await: only the poll that was running at the drop may
\* still apply what it has received, and no poll starts after the drop
C29_TaskAppliesUntilAborted ==
    /\ []AppliedInOrder
    /\ SyncFollows
    /\ ReceivedIsApplied
    /\ [][(wallet.dropped /\ ~tasks[Bg].running) =>
            /\ wallet'.applied = wallet.applied
            /\ wallet'.responses = wallet.responses
            /\ tasks'[Bg] = tasks[Bg]]_vars

\* a sync has failed, and an update received after it has been applied and is
\* being followed by the next sync
C29_Witness ==
    /\ tasks[Bg].sync_failed
    /\ tasks[Bg].pc = "sync"
    /\ wallet.applied # <<>>
    /\ ~wallet.dropped

====
